---------------------------- MODULE Spec2Model ----------------------------
(***************************************************************************)
(* Model of the Decaf recursive-descent parser (p2-parser.c).              *)
(*                                                                         *)
(* The parser is a call tree of rule functions over one token queue.  Each *)
(* rule is an operator from a parser state to a parser state; the record   *)
(* carries the queue, the value the rule returned and the way the call     *)
(* ended.  Error_throw_printf unwinds to the caller of parse, so every     *)
(* operator passes a state that is not "ok" through unchanged.             *)
(*                                                                         *)
(* Token texts are sequences of characters, so that strtol and the string  *)
(* unescaping of parse_lit are computed character by character.            *)
(***************************************************************************)
EXTENDS Integers, Sequences, FiniteSets, TLC

VARIABLES
    rule,       \* the entry point this run calls
    input,      \* the token sequence handed to it (NULL_QUEUE: a null pointer)
    pc,         \* "start", "program" (inside parse_program's loop), "done"
    ps,         \* the parser state: queue, status, error, returned value
    prog_vars,  \* parse_program: the global variable list (vars) built so far
    prog_funcs, \* parse_program: the function list (funcs) built so far
    arg         \* the other arguments of the call: expected type and text

vars == <<rule, input, pc, ps, prog_vars, prog_funcs, arg>>

(***************************************************************************)
(* Characters that have no one-character spelling here.                    *)
(***************************************************************************)
c_bs  == "BACKSLASH"
c_dq  == "DQUOTE"
c_nl  == "NEWLINE"
c_tab == "TAB"

(***************************************************************************)
(* Token types (TokenType) and the token record.                           *)
(***************************************************************************)
ID     == "ID"
DECLIT == "DECLIT"
HEXLIT == "HEXLIT"
STRLIT == "STRLIT"
KEY    == "KEY"
SYM    == "SYM"

Token(type, text, line) == [type |-> type, text |-> text, line |-> line]

\* the null pointer, as a node and as a token
NULL == [type |-> "NULL"]

\* input == NULL in parse
NULL_QUEUE == <<NULL>>

(***************************************************************************)
(* Bounds of the model.                                                    *)
(***************************************************************************)
\* the longest chain of binary operators of any levels that is enumerated
MaxChain == 2
\* the longest chain of binary operators of one level that is enumerated
MaxLevelChain == 3
\* the most items (declarations, statements) enumerated inside one block
MaxItems == 2
\* the most top-level declarations of the programs that mix them freely
MaxDecls == 3
\* the most arguments of a call, and parameters of a function, enumerated
MaxArgs == 3

(***************************************************************************)
(* Sizes of the C types and buffers.                                       *)
(***************************************************************************)
\* identifiers are copied with snprintf(buffer, MAX_ID_LEN, ...)
MAX_ID_LEN == 256
INT_BITS  == 32
LONG_BITS == 64

(***************************************************************************)
(* Outcomes of the operations whose behaviour the C standard leaves        *)
(* undefined.  One oracle is drawn per call of an entry point.             *)
(*   null   : input->head->next->text when head->next is a null pointer    *)
(*            ("crash", or a wild read that compares "equal" / "unequal")  *)
(*   empty  : TokenQueue_remove on an empty queue ("crash" or "throw")     *)
(*   strcat : strncat onto a destination that overlaps its source          *)
(*            ("bytewise": copied front to back; "nul_first": the          *)
(*             terminator is stored before the bytes are copied)           *)
(***************************************************************************)
Oracles ==
    [null : {"crash", "equal", "unequal"},
     empty : {"crash", "throw"},
     strcat : {"bytewise", "nul_first"}]

DefaultOracle == [null |-> "crash", empty |-> "crash", strcat |-> "bytewise"]

(***************************************************************************)
(* Parser state.                                                           *)
(*   q     the token queue (head first)                                    *)
(*   st    "ok": running or returned; "error": Error_throw_printf was      *)
(*         called; "crash": the process was killed                         *)
(*   err   the error thrown, nerr the number of errors thrown              *)
(*   val   the value returned by the last rule or helper                   *)
(*   wild  a read through a null pointer happened                          *)
(*   rmempty  TokenQueue_remove was called on an empty queue               *)
(*   overlap  strncat was called with overlapping source and destination   *)
(*   orc   the oracle of this call                                         *)
(***************************************************************************)
NoError == [kind |-> "none", expected |-> <<>>, found |-> <<>>, line |-> 0]

NewState(tokens, o) ==
    [q |-> tokens, st |-> "ok", err |-> NoError, nerr |-> 0, val |-> NULL,
     wild |-> FALSE, rmempty |-> FALSE, overlap |-> FALSE, orc |-> o,
     iter |-> 0, stall |-> FALSE]

Ret(s, v) == IF s.st # "ok" THEN s ELSE [s EXCEPT !.val = v]

\* one pass of the body of a loop, entered in state s and left in state e:
\* the pass is counted, and it is recorded if it ended without an error
\* and without a token less in the queue
LoopPass(s, e) ==
    [e EXCEPT !.iter = @ + 1,
              !.stall = @ \/ (e.st = "ok" /\ Len(e.q) >= Len(s.q))]

\* Error_throw_printf: records the error and unwinds
Error_throw_printf(s, kind, expected, found, line) ==
    IF s.st # "ok" THEN s
    ELSE [s EXCEPT !.st = "error", !.nerr = @ + 1,
                   !.err = [kind |-> kind, expected |-> expected,
                            found |-> found, line |-> line]]

\* the process dies (segmentation fault)
Crash(s) == IF s.st # "ok" THEN s ELSE [s EXCEPT !.st = "crash"]

(***************************************************************************)
(* The token queue (token.c): is_empty, peek, remove.                      *)
(***************************************************************************)
token_str_eq(a, b) == a = b

TokenQueue_is_empty(s) == s.q = <<>>

\* only called on a queue that holds a token
TokenQueue_peek(s) == Head(s.q)

\* removes and returns the head; on an empty queue the outcome is the
\* oracle's: the library throws, or hands back a null pointer that the
\* caller dereferences
TokenQueue_remove(s) ==
    IF s.st # "ok" THEN s
    ELSE IF s.q = <<>>
    THEN LET t == [s EXCEPT !.rmempty = TRUE]
         IN  IF s.orc.empty = "throw"
             THEN Error_throw_printf(t, "EmptyQueue", <<>>, <<>>, 0)
             ELSE Crash(t)
    ELSE [s EXCEPT !.q = Tail(s.q), !.val = Head(s.q)]

(***************************************************************************)
(* Helper functions of the parser.                                         *)
(***************************************************************************)
get_next_token_line(s) ==
    IF s.st # "ok" THEN s
    ELSE IF TokenQueue_is_empty(s)
    THEN Error_throw_printf(s, "UnexpectedEndOfInput", <<>>, <<>>, 0)
    ELSE Ret(s, TokenQueue_peek(s).line)

\* match_and_discard_next_token without the comparison of the token
match_and_discard_next_token_unchecked(s, type, text) ==
    IF s.st # "ok" THEN s
    ELSE IF TokenQueue_is_empty(s)
    THEN Error_throw_printf(s, "UnexpectedEndOfInput", text, <<>>, 0)
    ELSE Ret(TokenQueue_remove(s), NULL)

\* match_and_discard_next_token, were a wrong token put back at the tail
match_and_discard_next_token_requeues(s, type, text) ==
    IF s.st # "ok" THEN s
    ELSE IF TokenQueue_is_empty(s)
    THEN Error_throw_printf(s, "UnexpectedEndOfInput", text, <<>>, 0)
    ELSE LET r == TokenQueue_remove(s)
             token == r.val
         IN  IF token.type # type \/ ~token_str_eq(token.text, text)
             THEN Error_throw_printf([r EXCEPT !.q = Append(@, token)],
                                     "TokenMismatch", text, token.text,
                                     token.line)
             ELSE Ret(r, NULL)

\* a wrong token is removed before the message is built, and its line
\* argument is get_next_token_line of what is left
match_and_discard_next_token(s, type, text) ==
    IF s.st # "ok" THEN s
    ELSE IF TokenQueue_is_empty(s)
    THEN Error_throw_printf(s, "UnexpectedEndOfInput", text, <<>>, 0)
    ELSE LET r == TokenQueue_remove(s)
             token == r.val
         IN  IF token.type # type \/ ~token_str_eq(token.text, text)
             THEN LET l == get_next_token_line(r)
                  IN  Error_throw_printf(l, "TokenMismatch", text,
                                         token.text, l.val)
             ELSE Ret(r, NULL)

discard_next_token(s) ==
    IF s.st # "ok" THEN s
    ELSE IF TokenQueue_is_empty(s)
    THEN Error_throw_printf(s, "UnexpectedEndOfInput", <<>>, <<>>, 0)
    ELSE Ret(TokenQueue_remove(s), NULL)

check_next_token_type(s, type) ==
    IF TokenQueue_is_empty(s) THEN FALSE
    ELSE TokenQueue_peek(s).type = type

check_next_token(s, type, text) ==
    IF TokenQueue_is_empty(s) THEN FALSE
    ELSE TokenQueue_peek(s).type = type
         /\ token_str_eq(TokenQueue_peek(s).text, text)

(***************************************************************************)
(* strtol and the conversion of its long result to int.                    *)
(* The value is kept in four 16-bit limbs (least significant first), so    *)
(* that a 64-bit long and the 32-bit int it is cast to keep their widths.  *)
(***************************************************************************)
\* half an int: Limb * Limb = 2^INT_BITS, and four limbs are LONG_BITS bits
Limb == 2 ^ (INT_BITS \div 2)

DigitVal(c) ==
    CASE c = "0" -> 0 [] c = "1" -> 1 [] c = "2" -> 2 [] c = "3" -> 3
      [] c = "4" -> 4 [] c = "5" -> 5 [] c = "6" -> 6 [] c = "7" -> 7
      [] c = "8" -> 8 [] c = "9" -> 9
      [] c \in {"a", "A"} -> 10 [] c \in {"b", "B"} -> 11
      [] c \in {"c", "C"} -> 12 [] c \in {"d", "D"} -> 13
      [] c \in {"e", "E"} -> 14 [] c \in {"f", "F"} -> 15
      [] OTHER -> 99

\* acc * base + d on the limbs; sat: the value no longer fits a long
MulAdd(acc, base, d) ==
    LET x0 == acc.l[1] * base + d
        x1 == acc.l[2] * base + (x0 \div Limb)
        x2 == acc.l[3] * base + (x1 \div Limb)
        x3 == acc.l[4] * base + (x2 \div Limb)
    IN  [l |-> <<x0 % Limb, x1 % Limb, x2 % Limb, x3 % Limb>>,
         sat |-> acc.sat \/ x3 >= 2 ^ (LONG_BITS - 3 * (INT_BITS \div 2) - 1)]

RECURSIVE strtol_digits(_, _, _)
strtol_digits(text, base, acc) ==
    IF text = <<>> \/ DigitVal(Head(text)) >= base THEN acc
    ELSE strtol_digits(Tail(text), base, MulAdd(acc, base, DigitVal(Head(text))))

\* LongToInt, were a long outside the range of int clamped to INT_MAX
LongToInt_clamped(acc) ==
    IF acc.sat \/ acc.l[4] # 0 \/ acc.l[3] # 0 \/ acc.l[2] >= Limb \div 2
    THEN (Limb \div 2 - 1) * Limb + (Limb - 1)
    ELSE acc.l[2] * Limb + acc.l[1]

\* (int) of a long: the low INT_BITS bits, read as two's complement;
\* an out-of-range long is LONG_MAX, whose low bits are all ones
LongToInt(acc) ==
    IF acc.sat THEN -1
    ELSE IF acc.l[2] >= Limb \div 2
         THEN (acc.l[2] - Limb) * Limb + acc.l[1]
         ELSE acc.l[2] * Limb + acc.l[1]

HasHexPrefix(text) ==
    /\ Len(text) >= 3
    /\ text[1] = "0"
    /\ text[2] \in {"x", "X"}
    /\ DigitVal(text[3]) < 16

\* (int) strtol(text, NULL, base) for a text with no sign and no blanks
strtol_int(text, base) ==
    LET zero == [l |-> <<0, 0, 0, 0>>, sat |-> FALSE]
        digits == IF base = 16 /\ HasHexPrefix(text)
                  THEN SubSeq(text, 3, Len(text)) ELSE text
    IN  LongToInt(strtol_digits(digits, base, zero))

(***************************************************************************)
(* Call(f, s) is the call of the parsing function named f on the parser    *)
(* state s.  The functions of the parser are mutually recursive (the C     *)
(* file declares parse_loc, parse_expr and parse_block ahead of their      *)
(* definitions); here every call of one parsing function by another goes   *)
(* through this one recursive operator, defined after the last of them.    *)
(***************************************************************************)
RECURSIVE Call(_, _)

(***************************************************************************)
(* AST node constructors (ast.c).                                          *)
(***************************************************************************)
INT  == "INT"
BOOL == "BOOL"
VOID == "VOID"
STR  == "STR"

VarDeclNode_new(name, type, is_array, array_length, line) ==
    [type |-> "VARDECL", name |-> name, dtype |-> type,
     is_array |-> is_array, array_length |-> array_length, line |-> line]

LiteralNode_new_int(i, line) ==
    [type |-> "LITERAL", ltype |-> INT, integer |-> i, boolean |-> FALSE,
     string |-> <<>>, line |-> line]

LiteralNode_new_bool(b, line) ==
    [type |-> "LITERAL", ltype |-> BOOL, integer |-> 0, boolean |-> b,
     string |-> <<>>, line |-> line]

LiteralNode_new_string(str, line) ==
    [type |-> "LITERAL", ltype |-> STR, integer |-> 0, boolean |-> FALSE,
     string |-> str, line |-> line]

\* snprintf(buffer, MAX_ID_LEN, "%s", text)
CopyId(text) ==
    IF Len(text) < MAX_ID_LEN THEN text ELSE SubSeq(text, 1, MAX_ID_LEN - 1)

(***************************************************************************)
(* Texts of the keywords and symbols the parser compares with.             *)
(***************************************************************************)
tx ==
    [def      |-> <<"d", "e", "f">>,
     int      |-> <<"i", "n", "t">>,
     bool     |-> <<"b", "o", "o", "l">>,
     void     |-> <<"v", "o", "i", "d">>,
     true     |-> <<"t", "r", "u", "e">>,
     false    |-> <<"f", "a", "l", "s", "e">>,
     if       |-> <<"i", "f">>,
     else     |-> <<"e", "l", "s", "e">>,
     while    |-> <<"w", "h", "i", "l", "e">>,
     return   |-> <<"r", "e", "t", "u", "r", "n">>,
     break    |-> <<"b", "r", "e", "a", "k">>,
     continue |-> <<"c", "o", "n", "t", "i", "n", "u", "e">>,
     lparen   |-> <<"(">>,
     rparen   |-> <<")">>,
     lbrace   |-> <<"{">>,
     rbrace   |-> <<"}">>,
     lbrack   |-> <<"[">>,
     rbrack   |-> <<"]">>,
     semi     |-> <<";">>,
     comma    |-> <<",">>,
     assign   |-> <<"=">>,
     plus     |-> <<"+">>,
     minus    |-> <<"-">>,
     star     |-> <<"*">>,
     slash    |-> <<"/">>,
     percent  |-> <<"%">>,
     lt       |-> <<"<">>,
     le       |-> <<"<", "=">>,
     gt       |-> <<">">>,
     ge       |-> <<">", "=">>,
     eq       |-> <<"=", "=">>,
     neq      |-> <<"!", "=">>,
     and      |-> <<"&", "&">>,
     or       |-> <<"|", "|">>,
     not      |-> <<"!">>]

(***************************************************************************)
(* Primitive parsers.                                                      *)
(***************************************************************************)
parse_type(s) ==
    IF s.st # "ok" THEN s
    ELSE IF TokenQueue_is_empty(s)
    THEN Error_throw_printf(s, "UnexpectedEndOfInput", <<>>, <<>>, 0)
    ELSE LET r == TokenQueue_remove(s)
             token == r.val
             l == get_next_token_line(r)
             invalid == Error_throw_printf(l, "InvalidType", <<>>,
                                           token.text, l.val)
         IN  IF token.type # KEY THEN invalid
             ELSE IF token_str_eq(tx.int, token.text) THEN Ret(r, INT)
             ELSE IF token_str_eq(tx.bool, token.text) THEN Ret(r, BOOL)
             ELSE IF token_str_eq(tx.void, token.text) THEN Ret(r, VOID)
             ELSE invalid

parse_id(s) ==
    IF s.st # "ok" THEN s
    ELSE IF TokenQueue_is_empty(s)
    THEN Error_throw_printf(s, "UnexpectedEndOfInput", <<>>, <<>>, 0)
    ELSE LET r == TokenQueue_remove(s)
             token == r.val
             l == get_next_token_line(r)
         IN  IF token.type # ID
             THEN Error_throw_printf(l, "InvalidID", <<>>, token.text, l.val)
             ELSE Ret(r, CopyId(token.text))

parse_vardecl(s) ==
    IF s.st # "ok" THEN s
    ELSE IF TokenQueue_is_empty(s)
    THEN Error_throw_printf(s, "UnexpectedEndOfInput", <<>>, <<>>, 0)
    ELSE LET s1 == get_next_token_line(s)
             line == s1.val
             s2 == parse_type(s1)
             type == s2.val
             s3 == parse_id(s2)
             buffer == s3.val
         IN  IF s3.st # "ok" THEN s3
             ELSE IF check_next_token(s3, SYM, tx.lbrack)
             THEN LET s4 == match_and_discard_next_token(s3, SYM, tx.lbrack)
                      s5 == TokenQueue_remove(s4)
                      token == s5.val
                      s6 == match_and_discard_next_token(s5, SYM, tx.rbrack)
                      s7 == match_and_discard_next_token(s6, SYM, tx.semi)
                  IN  Ret(s7, VarDeclNode_new(buffer, type, TRUE,
                                       strtol_int(token.text, 10), line))
             ELSE LET s7 == match_and_discard_next_token(s3, SYM, tx.semi)
                  IN  Ret(s7, VarDeclNode_new(buffer, type, FALSE, 1, line))

Parameter(name, type) == [name |-> name, type |-> type]

\* parse_params_loop, were a parameter name allowed only once
RECURSIVE parse_params_loop_unique(_, _)
parse_params_loop_unique(s, params) ==
    IF s.st # "ok" THEN s
    ELSE IF check_next_token(s, SYM, tx.rparen) THEN Ret(s, params)
    ELSE LET s1 == match_and_discard_next_token(s, SYM, tx.comma)
             s2 == Call("parse_type", s1)
             s3 == Call("parse_id", s2)
         IN  IF s3.st # "ok" THEN s3
             ELSE IF \E i \in DOMAIN params : params[i].name = s3.val
             THEN Error_throw_printf(s3, "InvalidID", <<>>, s3.val, 0)
             ELSE parse_params_loop_unique(s3,
                      Append(params, Parameter(s3.val, s2.val)))

\* while (!check_next_token(input, SYM, ")")) { "," Type Id }
RECURSIVE parse_params_loop(_, _)
parse_params_loop(s, params) ==
    IF s.st # "ok" THEN s
    ELSE IF check_next_token(s, SYM, tx.rparen) THEN Ret(s, params)
    ELSE LET s1 == match_and_discard_next_token(s, SYM, tx.comma)
             s2 == Call("parse_type", s1)
             s3 == LoopPass(s, Call("parse_id", s2))
         IN  parse_params_loop(s3, Append(params, Parameter(s3.val, s2.val)))

parse_params(s) ==
    IF s.st # "ok" THEN s
    ELSE IF TokenQueue_is_empty(s)
    THEN Error_throw_printf(s, "UnexpectedEndOfInput", <<>>, <<>>, 0)
    ELSE LET s1 == Call("parse_type", s)
             s2 == Call("parse_id", s1)
             params == <<Parameter(s2.val, s1.val)>>
         IN  IF s2.st # "ok" THEN s2
             ELSE IF check_next_token(s2, SYM, tx.comma)
             THEN parse_params_loop(s2, params)
             ELSE Ret(s2, params)

(***************************************************************************)
(* parse_lit.                                                              *)
(***************************************************************************)
\* strstr(p, "ab"): the index of the first occurrence, 0 for a null result
strstr2(p, a, b) ==
    LET hits == {i \in 1 .. Len(p) - 1 : p[i] = a /\ p[i + 1] = b}
    IN  IF hits = {} THEN 0
        ELSE CHOOSE i \in hits : \A j \in hits : i <= j

\* strncat(p, p2, strlen(p2) + 1) where p2 points into p's own buffer, one
\* byte behind p's terminator: source and destination overlap as soon as
\* p2 is not empty, and what is appended is the oracle's
strncat_overlap(s, dest, src) ==
    IF src = <<>> THEN Ret(s, dest)
    ELSE IF s.orc.strcat = "bytewise"
    THEN Ret([s EXCEPT !.overlap = TRUE], dest \o src)
    ELSE Ret([s EXCEPT !.overlap = TRUE],
             dest \o SubSeq(src, 1, Len(src) - 1))

\* lines 252-276: the string branch, on the removed token
unescape(s, token, line) ==
    LET p == SubSeq(token.text, 2, Len(token.text) - 1)
        n == strstr2(p, c_bs, "n")
        t == strstr2(p, c_bs, "t")
        b == strstr2(p, c_bs, c_bs)
        q == strstr2(p, c_bs, c_dq)
        p2 == IF n # 0 THEN n ELSE IF t # 0 THEN t ELSE IF b # 0 THEN b ELSE q
        escp == IF n # 0 THEN c_nl ELSE IF t # 0 THEN c_tab
                ELSE IF b # 0 THEN c_bs ELSE c_dq
    IN  IF p2 = 0 THEN Ret(s, LiteralNode_new_string(p, line))
        ELSE LET cat == strncat_overlap(s, SubSeq(p, 1, p2 - 1) \o <<escp>>,
                                        SubSeq(p, p2 + 2, Len(p)))
             IN  Ret(cat, LiteralNode_new_string(cat.val, line))

parse_lit(s) ==
    IF s.st # "ok" THEN s
    ELSE IF TokenQueue_is_empty(s)
    THEN Error_throw_printf(s, "UnexpectedEndOfInput", <<>>, <<>>, 0)
    ELSE LET s1 == get_next_token_line(s)
             line == s1.val
             r == TokenQueue_remove(s1)
             token == r.val
         IN  IF check_next_token_type(s1, DECLIT)
             THEN Ret(r, LiteralNode_new_int(strtol_int(token.text, 10), line))
             ELSE IF check_next_token_type(s1, HEXLIT)
             THEN Ret(r, LiteralNode_new_int(strtol_int(token.text, 16), line))
             ELSE IF check_next_token_type(s1, KEY)
             THEN IF check_next_token(s1, KEY, tx.true)
                  THEN Ret(r, LiteralNode_new_bool(TRUE, line))
                  ELSE Ret(r, LiteralNode_new_bool(FALSE, line))
             ELSE unescape(r, token, line)

(***************************************************************************)
(* More node constructors.                                                 *)
(***************************************************************************)
BinaryOpNode_new(op, left, right, line) ==
    [type |-> "BINARYOP", op |-> op, left |-> left, right |-> right,
     line |-> line]

UnaryOpNode_new(op, child, line) ==
    [type |-> "UNARYOP", op |-> op, child |-> child, line |-> line]

LocationNode_new(name, index, line) ==
    [type |-> "LOCATION", name |-> name, index |-> index, line |-> line]

FuncCallNode_new(name, args, line) ==
    [type |-> "FUNCCALL", name |-> name, arguments |-> args, line |-> line]

ConditionalNode_new(condition, if_block, else_block, line) ==
    [type |-> "CONDITIONAL", condition |-> condition, if_block |-> if_block,
     else_block |-> else_block, line |-> line]

WhileLoopNode_new(condition, body, line) ==
    [type |-> "WHILELOOP", condition |-> condition, body |-> body,
     line |-> line]

ReturnNode_new(value, line) ==
    [type |-> "RETURN", value |-> value, line |-> line]

BreakNode_new(line) == [type |-> "BREAK", line |-> line]

ContinueNode_new(line) == [type |-> "CONTINUE", line |-> line]

AssignmentNode_new(location, value, line) ==
    [type |-> "ASSIGNMENT", location |-> location, value |-> value,
     line |-> line]

BlockNode_new(variables, statements, line) ==
    [type |-> "BLOCK", variables |-> variables, statements |-> statements,
     line |-> line]

FuncDeclNode_new(name, return_type, parameters, body, line) ==
    [type |-> "FUNCDECL", name |-> name, return_type |-> return_type,
     parameters |-> parameters, body |-> body, line |-> line]

ProgramNode_new(variables, functions) ==
    [type |-> "PROGRAM", variables |-> variables, functions |-> functions]

(***************************************************************************)
(* Expressions.                                                            *)
(***************************************************************************)

\* parse_args_loop, were a ) right after a comma the end of the arguments
RECURSIVE parse_args_loop_trailing_comma(_, _)
parse_args_loop_trailing_comma(s, args) ==
    IF s.st # "ok" THEN s
    ELSE IF check_next_token(s, SYM, tx.rparen) THEN Ret(s, args)
    ELSE LET s1 == match_and_discard_next_token(s, SYM, tx.comma)
             s2 == Call("parse_expr", s1)
         IN  IF s1.st = "ok" /\ check_next_token(s1, SYM, tx.rparen)
             THEN Ret(s1, args)
             ELSE parse_args_loop_trailing_comma(s2, Append(args, s2.val))

\* while (!check_next_token(input, SYM, ")")) { "," Expr }
RECURSIVE parse_args_loop(_, _)
parse_args_loop(s, args) ==
    IF s.st # "ok" THEN s
    ELSE IF check_next_token(s, SYM, tx.rparen) THEN Ret(s, args)
    ELSE LET s1 == match_and_discard_next_token(s, SYM, tx.comma)
             s2 == LoopPass(s, Call("parse_expr", s1))
         IN  parse_args_loop(s2, Append(args, s2.val))

parse_args(s) ==
    IF s.st # "ok" THEN s
    ELSE IF TokenQueue_is_empty(s)
    THEN Error_throw_printf(s, "UnexpectedEndOfInput", <<>>, <<>>, 0)
    ELSE LET s1 == Call("parse_expr", s)
             args == <<s1.val>>
         IN  IF s1.st # "ok" THEN s1
             ELSE IF check_next_token(s1, SYM, tx.comma)
             THEN parse_args_loop(s1, args)
             ELSE Ret(s1, args)

parse_funccall(s) ==
    IF s.st # "ok" THEN s
    ELSE IF TokenQueue_is_empty(s)
    THEN Error_throw_printf(s, "UnexpectedEndOfInput", <<>>, <<>>, 0)
    ELSE LET s1 == get_next_token_line(s)
             line == s1.val
             s2 == Call("parse_id", s1)
             buffer == s2.val
             s3 == match_and_discard_next_token(s2, SYM, tx.lparen)
             s4 == IF s3.st = "ok" /\ ~check_next_token(s3, SYM, tx.rparen)
                   THEN Call("parse_args", s3)
                   ELSE Ret(s3, <<>>)
             args == s4.val
             s5 == match_and_discard_next_token(s4, SYM, tx.rparen)
         IN  Ret(s5, FuncCallNode_new(buffer, args, line))

\* head_next_text_eq, were the text read from input->head
head_next_text_eq_of_head(s, text) ==
    Ret(s, token_str_eq(s.q[1].text, text))

\* token_str_eq(input->head->next->text, text), evaluated when the head is
\* an identifier: with no second token, head->next is a null pointer
head_next_text_eq(s, text) ==
    IF s.st # "ok" THEN s
    ELSE IF Len(s.q) >= 2 THEN Ret(s, token_str_eq(s.q[2].text, text))
    ELSE LET w == [s EXCEPT !.wild = TRUE]
         IN  IF s.orc.null = "crash" THEN Crash(w)
             ELSE Ret(w, s.orc.null = "equal")

IsLiteralNext(s) ==
    \/ check_next_token_type(s, DECLIT)
    \/ check_next_token_type(s, HEXLIT)
    \/ check_next_token_type(s, STRLIT)
    \/ check_next_token(s, KEY, tx.true)
    \/ check_next_token(s, KEY, tx.false)

parse_base_expr(s) ==
    IF s.st # "ok" THEN s
    ELSE IF TokenQueue_is_empty(s)
    THEN Error_throw_printf(s, "UnexpectedEndOfInput", <<>>, <<>>, 0)
    ELSE LET s1 == get_next_token_line(s)
             line == s1.val
         IN  IF check_next_token(s1, SYM, tx.lparen)
             THEN LET s2 == match_and_discard_next_token(s1, SYM, tx.lparen)
                      s3 == Call("parse_expr", s2)
                      s4 == match_and_discard_next_token(s3, SYM, tx.rparen)
                  IN  Ret(s4, s3.val)
             ELSE IF check_next_token_type(s1, ID)
             THEN LET c == head_next_text_eq(s1, tx.lparen)
                  IN  IF c.st # "ok" THEN c
                      ELSE IF c.val THEN Call("parse_funccall", c)
                      ELSE Call("parse_loc", c)
             ELSE IF IsLiteralNext(s1) THEN Call("parse_lit", s1)
             ELSE LET r == TokenQueue_remove(s1)
                  IN  Error_throw_printf(r, "InvalidBaseExpression", <<>>,
                                         r.val.text, line)

\* parse_neg, were the operand of a prefix operator a unary expression
parse_neg_chained(s) ==
    IF s.st # "ok" THEN s
    ELSE IF TokenQueue_is_empty(s)
    THEN Error_throw_printf(s, "UnexpectedEndOfInput", <<>>, <<>>, 0)
    ELSE LET s1 == get_next_token_line(s)
             line == s1.val
         IN  IF check_next_token(s1, SYM, tx.minus)
             THEN LET s2 == match_and_discard_next_token(s1, SYM, tx.minus)
                      s3 == Call("parse_neg", s2)
                  IN  Ret(s3, UnaryOpNode_new("NEGOP", s3.val, line))
             ELSE IF check_next_token(s1, SYM, tx.not)
             THEN LET s2 == match_and_discard_next_token(s1, SYM, tx.not)
                      s3 == Call("parse_neg", s2)
                  IN  Ret(s3, UnaryOpNode_new("NOTOP", s3.val, line))
             ELSE Call("parse_base_expr", s1)

parse_neg(s) ==
    IF s.st # "ok" THEN s
    ELSE IF TokenQueue_is_empty(s)
    THEN Error_throw_printf(s, "UnexpectedEndOfInput", <<>>, <<>>, 0)
    ELSE LET s1 == get_next_token_line(s)
             line == s1.val
         IN  IF check_next_token(s1, SYM, tx.minus)
             THEN LET s2 == match_and_discard_next_token(s1, SYM, tx.minus)
                      s3 == Call("parse_base_expr", s2)
                  IN  Ret(s3, UnaryOpNode_new("NEGOP", s3.val, line))
             ELSE IF check_next_token(s1, SYM, tx.not)
             THEN LET s2 == match_and_discard_next_token(s1, SYM, tx.not)
                      s3 == Call("parse_base_expr", s2)
                  IN  Ret(s3, UnaryOpNode_new("NOTOP", s3.val, line))
             ELSE Call("parse_base_expr", s1)

(***************************************************************************)
(* The binary levels.  Each reads its left operand with the next tighter   *)
(* rule and then loops: X_loop is the while loop of X, X_step one pass of  *)
(* its body (match the operator, parse the right operand, fold).           *)
(***************************************************************************)
RECURSIVE parse_mult_loop(_, _, _)
\* parse_mult_step, were the right operand a whole multiplicative expression
parse_mult_step_right_assoc(s, root, line, text, op) ==
    LET s1 == match_and_discard_next_token(s, SYM, text)
        s2 == Call("parse_mult", s1)
    IN  Ret(s2, BinaryOpNode_new(op, root, s2.val, line))

parse_mult_step(s, root, line, text, op) ==
    LET s1 == match_and_discard_next_token(s, SYM, text)
        s2 == LoopPass(s, Call("parse_neg", s1))
    IN  parse_mult_loop(s2, BinaryOpNode_new(op, root, s2.val, line), line)

parse_mult_loop(s, root, line) ==
    IF s.st # "ok" THEN s
    ELSE IF check_next_token(s, SYM, tx.star)
    THEN parse_mult_step(s, root, line, tx.star, "MULOP")
    ELSE IF check_next_token(s, SYM, tx.slash)
    THEN parse_mult_step(s, root, line, tx.slash, "DIVOP")
    ELSE IF check_next_token(s, SYM, tx.percent)
    THEN parse_mult_step(s, root, line, tx.percent, "MODOP")
    ELSE Ret(s, root)

parse_mult(s) ==
    IF s.st # "ok" THEN s
    ELSE IF TokenQueue_is_empty(s)
    THEN Error_throw_printf(s, "UnexpectedEndOfInput", <<>>, <<>>, 0)
    ELSE LET s1 == get_next_token_line(s)
             s2 == Call("parse_neg", s1)
         IN  parse_mult_loop(s2, s2.val, s1.val)

RECURSIVE parse_arith_loop(_, _, _)
\* parse_arith_step, were the right operand of + and - read with the unary
\* rule, skipping the multiplicative level
parse_arith_step_tight_operand(s, root, line, text, op) ==
    LET s1 == match_and_discard_next_token(s, SYM, text)
        s2 == Call("parse_neg", s1)
    IN  parse_arith_loop(s2, BinaryOpNode_new(op, root, s2.val, line), line)

parse_arith_step(s, root, line, text, op) ==
    LET s1 == match_and_discard_next_token(s, SYM, text)
        s2 == LoopPass(s, Call("parse_mult", s1))
    IN  parse_arith_loop(s2, BinaryOpNode_new(op, root, s2.val, line), line)

parse_arith_loop(s, root, line) ==
    IF s.st # "ok" THEN s
    ELSE IF check_next_token(s, SYM, tx.plus)
    THEN parse_arith_step(s, root, line, tx.plus, "ADDOP")
    ELSE IF check_next_token(s, SYM, tx.minus)
    THEN parse_arith_step(s, root, line, tx.minus, "SUBOP")
    ELSE Ret(s, root)

parse_arith(s) ==
    IF s.st # "ok" THEN s
    ELSE IF TokenQueue_is_empty(s)
    THEN Error_throw_printf(s, "UnexpectedEndOfInput", <<>>, <<>>, 0)
    ELSE LET s1 == get_next_token_line(s)
             s2 == Call("parse_mult", s1)
         IN  parse_arith_loop(s2, s2.val, s1.val)

RECURSIVE parse_relational_loop(_, _, _)
parse_relational_step(s, root, line, text, op) ==
    LET s1 == match_and_discard_next_token(s, SYM, text)
        s2 == LoopPass(s, Call("parse_arith", s1))
    IN  parse_relational_loop(s2, BinaryOpNode_new(op, root, s2.val, line), line)

parse_relational_loop(s, root, line) ==
    IF s.st # "ok" THEN s
    ELSE IF check_next_token(s, SYM, tx.lt)
    THEN parse_relational_step(s, root, line, tx.lt, "LTOP")
    ELSE IF check_next_token(s, SYM, tx.le)
    THEN parse_relational_step(s, root, line, tx.le, "LEOP")
    ELSE IF check_next_token(s, SYM, tx.gt)
    THEN parse_relational_step(s, root, line, tx.gt, "GTOP")
    ELSE IF check_next_token(s, SYM, tx.ge)
    THEN parse_relational_step(s, root, line, tx.ge, "GEOP")
    ELSE Ret(s, root)

parse_relational(s) ==
    IF s.st # "ok" THEN s
    ELSE IF TokenQueue_is_empty(s)
    THEN Error_throw_printf(s, "UnexpectedEndOfInput", <<>>, <<>>, 0)
    ELSE LET s1 == get_next_token_line(s)
             s2 == Call("parse_arith", s1)
         IN  parse_relational_loop(s2, s2.val, s1.val)

RECURSIVE parse_equality_loop(_, _, _)
parse_equality_step(s, root, line, text, op) ==
    LET s1 == match_and_discard_next_token(s, SYM, text)
        s2 == LoopPass(s, Call("parse_relational", s1))
    IN  parse_equality_loop(s2, BinaryOpNode_new(op, root, s2.val, line), line)

parse_equality_loop(s, root, line) ==
    IF s.st # "ok" THEN s
    ELSE IF check_next_token(s, SYM, tx.eq)
    THEN parse_equality_step(s, root, line, tx.eq, "EQOP")
    ELSE IF check_next_token(s, SYM, tx.neq)
    THEN parse_equality_step(s, root, line, tx.neq, "NEQOP")
    ELSE Ret(s, root)

parse_equality(s) ==
    IF s.st # "ok" THEN s
    ELSE IF TokenQueue_is_empty(s)
    THEN Error_throw_printf(s, "UnexpectedEndOfInput", <<>>, <<>>, 0)
    ELSE LET s1 == get_next_token_line(s)
             s2 == Call("parse_relational", s1)
         IN  parse_equality_loop(s2, s2.val, s1.val)

RECURSIVE parse_and_loop(_, _, _)
parse_and_step(s, root, line, text, op) ==
    LET s1 == match_and_discard_next_token(s, SYM, text)
        s2 == LoopPass(s, Call("parse_equality", s1))
    IN  parse_and_loop(s2, BinaryOpNode_new(op, root, s2.val, line), line)

parse_and_loop(s, root, line) ==
    IF s.st # "ok" THEN s
    ELSE IF check_next_token(s, SYM, tx.and)
    THEN parse_and_step(s, root, line, tx.and, "ANDOP")
    ELSE Ret(s, root)

parse_and(s) ==
    IF s.st # "ok" THEN s
    ELSE IF TokenQueue_is_empty(s)
    THEN Error_throw_printf(s, "UnexpectedEndOfInput", <<>>, <<>>, 0)
    ELSE LET s1 == get_next_token_line(s)
             s2 == Call("parse_equality", s1)
         IN  parse_and_loop(s2, s2.val, s1.val)

RECURSIVE parse_or_loop(_, _, _)
parse_or_step(s, root, line, text, op) ==
    LET s1 == match_and_discard_next_token(s, SYM, text)
        s2 == LoopPass(s, Call("parse_and", s1))
    IN  parse_or_loop(s2, BinaryOpNode_new(op, root, s2.val, line), line)

parse_or_loop(s, root, line) ==
    IF s.st # "ok" THEN s
    ELSE IF check_next_token(s, SYM, tx.or)
    THEN parse_or_step(s, root, line, tx.or, "OROP")
    ELSE Ret(s, root)

parse_or(s) ==
    IF s.st # "ok" THEN s
    ELSE IF TokenQueue_is_empty(s)
    THEN Error_throw_printf(s, "UnexpectedEndOfInput", <<>>, <<>>, 0)
    ELSE LET s1 == get_next_token_line(s)
             s2 == Call("parse_and", s1)
         IN  parse_or_loop(s2, s2.val, s1.val)

parse_expr(s) ==
    IF s.st # "ok" THEN s
    ELSE IF TokenQueue_is_empty(s)
    THEN Error_throw_printf(s, "UnexpectedEndOfInput", <<>>, <<>>, 0)
    ELSE Call("parse_or", s)

(***************************************************************************)
(* Statements and blocks.                                                  *)
(***************************************************************************)
parse_conditional(s) ==
    IF s.st # "ok" THEN s
    ELSE IF TokenQueue_is_empty(s)
    THEN Error_throw_printf(s, "UnexpectedEndOfInput", <<>>, <<>>, 0)
    ELSE LET s1 == get_next_token_line(s)
             line == s1.val
             s2 == TokenQueue_remove(s1)
             s3 == match_and_discard_next_token(s2, SYM, tx.lparen)
             s4 == Call("parse_expr", s3)
             condition == s4.val
             s5 == match_and_discard_next_token(s4, SYM, tx.rparen)
             s6 == Call("parse_block", s5)
             if_block == s6.val
         IN  IF s6.st # "ok" THEN s6
             ELSE IF check_next_token(s6, KEY, tx.else)
             THEN LET s7 == match_and_discard_next_token(s6, KEY, tx.else)
                      s8 == Call("parse_expr", s7)
                  IN  Ret(s8, ConditionalNode_new(condition, if_block,
                                                       s8.val, line))
             ELSE Ret(s6, ConditionalNode_new(condition, if_block, NULL, line))

parse_loc(s) ==
    IF s.st # "ok" THEN s
    ELSE IF TokenQueue_is_empty(s)
    THEN Error_throw_printf(s, "UnexpectedEndOfInput", <<>>, <<>>, 0)
    ELSE LET s1 == get_next_token_line(s)
             line == s1.val
             s2 == Call("parse_id", s1)
             buffer == s2.val
         IN  IF s2.st # "ok" THEN s2
             ELSE IF check_next_token(s2, SYM, tx.lbrack)
             THEN LET s3 == match_and_discard_next_token(s2, SYM, tx.lbrack)
                      s4 == Call("parse_expr", s3)
                      s5 == match_and_discard_next_token(s4, SYM, tx.rbrack)
                  IN  Ret(s5, LocationNode_new(buffer, s4.val, line))
             ELSE Ret(s2, LocationNode_new(buffer, NULL, line))

parse_while(s) ==
    IF s.st # "ok" THEN s
    ELSE IF TokenQueue_is_empty(s)
    THEN Error_throw_printf(s, "UnexpectedEndOfInput", <<>>, <<>>, 0)
    ELSE LET s1 == get_next_token_line(s)
             line == s1.val
             s2 == TokenQueue_remove(s1)
             s3 == match_and_discard_next_token(s2, SYM, tx.lparen)
             s4 == Call("parse_expr", s3)
             s5 == match_and_discard_next_token(s4, SYM, tx.rparen)
             s6 == Call("parse_block", s5)
         IN  Ret(s6, WhileLoopNode_new(s4.val, s6.val, line))

\* lines 719-729: the statement starts with an identifier
parse_statement_id(s, line) ==
    LET c == head_next_text_eq(s, tx.lparen)
    IN  IF c.st # "ok" THEN c
        ELSE IF c.val
        THEN LET s1 == Call("parse_funccall", c)
                 s2 == match_and_discard_next_token(s1, SYM, tx.semi)
             IN  Ret(s2, s1.val)
        ELSE LET s1 == Call("parse_loc", c)
                 s2 == match_and_discard_next_token(s1, SYM, tx.assign)
                 s3 == Call("parse_expr", s2)
                 s4 == match_and_discard_next_token(s3, SYM, tx.semi)
             IN  Ret(s4, AssignmentNode_new(s1.val, s3.val, line))

\* parse_statement, were a token that starts no statement passed over
parse_statement_lenient(s) ==
    IF s.st # "ok" THEN s
    ELSE IF TokenQueue_is_empty(s)
    THEN Error_throw_printf(s, "UnexpectedEndOfInput", <<>>, <<>>, 0)
    ELSE LET s1 == get_next_token_line(s)
             line == s1.val
         IN  IF check_next_token(s1, KEY, tx.break)
             THEN LET s2 == TokenQueue_remove(s1)
                      s3 == match_and_discard_next_token(s2, SYM, tx.semi)
                  IN  Ret(s3, BreakNode_new(line))
             ELSE IF check_next_token(s1, KEY, tx.continue)
             THEN LET s2 == TokenQueue_remove(s1)
                      s3 == match_and_discard_next_token(s2, SYM, tx.semi)
                  IN  Ret(s3, ContinueNode_new(line))
             ELSE IF check_next_token(s1, KEY, tx.return)
             THEN LET s2 == TokenQueue_remove(s1)
                      s3 == IF ~check_next_token(s2, SYM, tx.semi)
                            THEN Call("parse_expr", s2)
                            ELSE Ret(s2, NULL)
                      s4 == match_and_discard_next_token(s3, SYM, tx.semi)
                  IN  Ret(s4, ReturnNode_new(s3.val, line))
             ELSE IF check_next_token(s1, KEY, tx.while)
             THEN Call("parse_while", s1)
             ELSE IF check_next_token(s1, KEY, tx.if)
             THEN Call("parse_conditional", s1)
             ELSE IF check_next_token_type(s1, ID)
             THEN parse_statement_id(s1, line)
             ELSE Ret(s1, NULL)

parse_statement(s) ==
    IF s.st # "ok" THEN s
    ELSE IF TokenQueue_is_empty(s)
    THEN Error_throw_printf(s, "UnexpectedEndOfInput", <<>>, <<>>, 0)
    ELSE LET s1 == get_next_token_line(s)
             line == s1.val
         IN  IF check_next_token(s1, KEY, tx.break)
             THEN LET s2 == TokenQueue_remove(s1)
                      s3 == match_and_discard_next_token(s2, SYM, tx.semi)
                  IN  Ret(s3, BreakNode_new(line))
             ELSE IF check_next_token(s1, KEY, tx.continue)
             THEN LET s2 == TokenQueue_remove(s1)
                      s3 == match_and_discard_next_token(s2, SYM, tx.semi)
                  IN  Ret(s3, ContinueNode_new(line))
             ELSE IF check_next_token(s1, KEY, tx.return)
             THEN LET s2 == TokenQueue_remove(s1)
                      s3 == IF ~check_next_token(s2, SYM, tx.semi)
                            THEN Call("parse_expr", s2)
                            ELSE Ret(s2, NULL)
                      s4 == match_and_discard_next_token(s3, SYM, tx.semi)
                  IN  Ret(s4, ReturnNode_new(s3.val, line))
             ELSE IF check_next_token(s1, KEY, tx.while)
             THEN Call("parse_while", s1)
             ELSE IF check_next_token(s1, KEY, tx.if)
             THEN Call("parse_conditional", s1)
             ELSE IF check_next_token_type(s1, ID)
             THEN parse_statement_id(s1, line)
             ELSE Error_throw_printf(s1, "InvalidStatement", <<>>, <<>>, line)

\* parse_block_loop, were a statement put at the front of its list
RECURSIVE parse_block_loop_prepends(_, _, _)
parse_block_loop_prepends(s, variables, stmnts) ==
    IF s.st # "ok" THEN s
    ELSE IF check_next_token(s, SYM, tx.rbrace)
    THEN Ret(s, [variables |-> variables, stmnts |-> stmnts])
    ELSE IF \/ check_next_token(s, KEY, tx.int)
            \/ check_next_token(s, KEY, tx.bool)
            \/ check_next_token(s, KEY, tx.void)
    THEN LET s1 == Call("parse_vardecl", s)
         IN  parse_block_loop_prepends(s1, Append(variables, s1.val),
                                            stmnts)
    ELSE LET s1 == Call("parse_statement", s)
         IN  parse_block_loop_prepends(s1, variables,
                                            <<s1.val>> \o stmnts)

\* while (!check_next_token(input, SYM, "}")) { VarDecl or Statement }
RECURSIVE parse_block_loop(_, _, _)
parse_block_loop(s, variables, stmnts) ==
    IF s.st # "ok" THEN s
    ELSE IF check_next_token(s, SYM, tx.rbrace)
    THEN Ret(s, [variables |-> variables, stmnts |-> stmnts])
    ELSE IF \/ check_next_token(s, KEY, tx.int)
            \/ check_next_token(s, KEY, tx.bool)
            \/ check_next_token(s, KEY, tx.void)
    THEN LET s1 == LoopPass(s, Call("parse_vardecl", s))
         IN  parse_block_loop(s1, Append(variables, s1.val), stmnts)
    ELSE LET s1 == LoopPass(s, Call("parse_statement", s))
         IN  parse_block_loop(s1, variables, Append(stmnts, s1.val))

\* parse_block, were the } of an empty block checked but left in the queue
parse_block_keeps_brace(s) ==
    IF s.st # "ok" THEN s
    ELSE IF TokenQueue_is_empty(s)
    THEN Error_throw_printf(s, "UnexpectedEndOfInput", <<>>, <<>>, 0)
    ELSE LET s1 == get_next_token_line(s)
             line == s1.val
             s2 == match_and_discard_next_token(s1, SYM, tx.lbrace)
         IN  IF s2.st # "ok" THEN s2
             ELSE IF check_next_token(s2, SYM, tx.rbrace)
             THEN Ret(s2, BlockNode_new(<<>>, <<>>, line))
             ELSE LET s3 == parse_block_loop(s2, <<>>, <<>>)
                      s4 == match_and_discard_next_token(s3, SYM, tx.rbrace)
                  IN  Ret(s4, BlockNode_new(s3.val.variables,
                                                 s3.val.stmnts, line))

parse_block(s) ==
    IF s.st # "ok" THEN s
    ELSE IF TokenQueue_is_empty(s)
    THEN Error_throw_printf(s, "UnexpectedEndOfInput", <<>>, <<>>, 0)
    ELSE LET s1 == get_next_token_line(s)
             line == s1.val
             s2 == match_and_discard_next_token(s1, SYM, tx.lbrace)
         IN  IF s2.st # "ok" THEN s2
             ELSE IF check_next_token(s2, SYM, tx.rbrace)
             THEN LET s3 == match_and_discard_next_token(s2, SYM, tx.rbrace)
                  IN  Ret(s3, BlockNode_new(<<>>, <<>>, line))
             ELSE LET s3 == parse_block_loop(s2, <<>>, <<>>)
                      s4 == match_and_discard_next_token(s3, SYM, tx.rbrace)
                  IN  Ret(s4, BlockNode_new(s3.val.variables,
                                                 s3.val.stmnts, line))

parse_funcdecl(s) ==
    IF s.st # "ok" THEN s
    ELSE IF TokenQueue_is_empty(s)
    THEN Error_throw_printf(s, "UnexpectedEndOfInput", <<>>, <<>>, 0)
    ELSE LET s1 == get_next_token_line(s)
             line == s1.val
             s2 == match_and_discard_next_token(s1, KEY, tx.def)
             s3 == Call("parse_type", s2)
             type == s3.val
             s4 == Call("parse_id", s3)
             buffer == s4.val
             s5 == match_and_discard_next_token(s4, SYM, tx.lparen)
             s6 == IF s5.st = "ok" /\ ~check_next_token(s5, SYM, tx.rparen)
                   THEN Call("parse_params", s5)
                   ELSE Ret(s5, <<>>)
             params == s6.val
             s7 == match_and_discard_next_token(s6, SYM, tx.rparen)
             s8 == Call("parse_block", s7)
         IN  Ret(s8, FuncDeclNode_new(buffer, type, params, s8.val, line))

Call(f, s) ==
    CASE f = "parse_type" -> parse_type(s)
      [] f = "parse_id" -> parse_id(s)
      [] f = "parse_vardecl" -> parse_vardecl(s)
      [] f = "parse_params" -> parse_params(s)
      [] f = "parse_lit" -> parse_lit(s)
      [] f = "parse_args" -> parse_args(s)
      [] f = "parse_funccall" -> parse_funccall(s)
      [] f = "parse_base_expr" -> parse_base_expr(s)
      [] f = "parse_neg" -> parse_neg(s)
      [] f = "parse_mult" -> parse_mult(s)
      [] f = "parse_arith" -> parse_arith(s)
      [] f = "parse_relational" -> parse_relational(s)
      [] f = "parse_equality" -> parse_equality(s)
      [] f = "parse_and" -> parse_and(s)
      [] f = "parse_or" -> parse_or(s)
      [] f = "parse_expr" -> parse_expr(s)
      [] f = "parse_conditional" -> parse_conditional(s)
      [] f = "parse_loc" -> parse_loc(s)
      [] f = "parse_while" -> parse_while(s)
      [] f = "parse_statement" -> parse_statement(s)
      [] f = "parse_block" -> parse_block(s)
      [] f = "parse_funcdecl" -> parse_funcdecl(s)

(***************************************************************************)
(* Inputs.  The lexer hands over tokens of the six types; a string literal *)
(* keeps its quotes and holds only complete escapes.  All tokens of an     *)
(* input are on line 1 unless an input says otherwise.                     *)
(***************************************************************************)
kw(text) == Token(KEY, text, 1)
sy(text) == Token(SYM, text, 1)
idt(text) == Token(ID, text, 1)
dec(text) == Token(DECLIT, text, 1)
hex(text) == Token(HEXLIT, text, 1)
str(text) == Token(STRLIT, text, 1)

RECURSIVE Flatten(_)
Flatten(ss) == IF ss = <<>> THEN <<>> ELSE Head(ss) \o Flatten(Tail(ss))

\* the concatenations of at most n members of S
Concats(S, n) == {Flatten(f) : f \in UNION {[1 .. k -> S] : k \in 0 .. n}}

Prefixes(S) == UNION {{SubSeq(p, 1, k) : k \in 0 .. Len(p)} : p \in S}

\* decimal literals: small ones, INT_MAX, INT_MAX + 1, 2^32 + 1, 2^63 - 1
DecTexts ==
    {<<"0">>, <<"7">>, <<"1", "0">>,
     <<"2", "1", "4", "7", "4", "8", "3", "6", "4", "7">>,
     <<"2", "1", "4", "7", "4", "8", "3", "6", "4", "8">>,
     <<"4", "2", "9", "4", "9", "6", "7", "2", "9", "7">>,
     <<"9", "2", "2", "3", "3", "7", "2", "0", "3", "6", "8", "5", "4", "7",
       "7", "5", "8", "0", "7">>}

\* hex literals: 16, 255, 2^31, 2^32 + 16, 2^63 - 1
HexTexts ==
    {<<"0", "x", "1", "0">>, <<"0", "x", "f", "F">>,
     <<"0", "x", "8", "0", "0", "0", "0", "0", "0", "0">>,
     <<"0", "x", "1", "0", "0", "0", "0", "0", "0", "1", "0">>,
     <<"0", "x", "7", "f", "f", "f", "f", "f", "f", "f", "f", "f", "f", "f",
       "f", "f", "f", "f">>}

\* the pieces a string literal is made of: plain characters and escapes
StrUnits ==
    {<<"a">>, <<"n">>, <<c_bs, "n">>, <<c_bs, "t">>, <<c_bs, c_bs>>,
     <<c_bs, c_dq>>}

\* the most pieces enumerated in one string literal
MaxStrUnits == 3

StrTexts == {<<c_dq>> \o body \o <<c_dq>> : body \in Concats(StrUnits, MaxStrUnits)}

LitTokens ==
    {dec(t) : t \in DecTexts} \cup {hex(t) : t \in HexTexts}
    \cup {str(t) : t \in StrTexts} \cup {kw(tx.true), kw(tx.false)}

\* what may follow the construct under test in the queue
Rests == {<<>>, <<sy(tx.semi)>>, <<sy(tx.rparen), idt(<<"z">>)>>}

LitInputs == {<<t>> \o r : t \in LitTokens, r \in Rests}

(***************************************************************************)
(* Expression inputs.                                                      *)
(***************************************************************************)
\* the binary operators: text, node operator, level (1 loosest .. 6 tightest)
BinOps ==
    <<[text |-> tx.or,      op |-> "OROP",  level |-> 1],
      [text |-> tx.and,     op |-> "ANDOP", level |-> 2],
      [text |-> tx.eq,      op |-> "EQOP",  level |-> 3],
      [text |-> tx.neq,     op |-> "NEQOP", level |-> 3],
      [text |-> tx.lt,      op |-> "LTOP",  level |-> 4],
      [text |-> tx.le,      op |-> "LEOP",  level |-> 4],
      [text |-> tx.gt,      op |-> "GTOP",  level |-> 4],
      [text |-> tx.ge,      op |-> "GEOP",  level |-> 4],
      [text |-> tx.plus,    op |-> "ADDOP", level |-> 5],
      [text |-> tx.minus,   op |-> "SUBOP", level |-> 5],
      [text |-> tx.star,    op |-> "MULOP", level |-> 6],
      [text |-> tx.slash,   op |-> "DIVOP", level |-> 6],
      [text |-> tx.percent, op |-> "MODOP", level |-> 6]>>

BinOpSet == {BinOps[i] : i \in DOMAIN BinOps}

\* the operand at position i of a chain: x, 7, y, true, x, ...
OperandTok(i) ==
    CASE i % 4 = 1 -> idt(<<"x">>)
      [] i % 4 = 2 -> dec(<<"7">>)
      [] i % 4 = 3 -> idt(<<"y">>)
      [] OTHER     -> kw(tx.true)

\* operand 1, ops[1], operand 2, ..., ops[k], operand k+1
RECURSIVE ChainFrom(_, _)
ChainFrom(ops, i) ==
    IF ops = <<>> THEN <<OperandTok(i)>>
    ELSE <<OperandTok(i), sy(Head(ops).text)>> \o ChainFrom(Tail(ops), i + 1)

ChainTokens(ops) == ChainFrom(ops, 1)

\* chains of operators of any levels
MixedChains == UNION {[1 .. k -> BinOpSet] : k \in 0 .. MaxChain}

\* longer chains, of operators of one level
LevelChains ==
    UNION {UNION {[1 .. k -> {b \in BinOpSet : b.level = l}] : k \in 0 .. MaxLevelChain}
           : l \in 1 .. 6}

Prefix1 == {<<>>, <<sy(tx.minus)>>, <<sy(tx.not)>>}

UnaryExprs ==
    {u1 \o <<idt(<<"x">>), sy(b.text)>> \o u2 \o <<dec(<<"7">>)>> :
        u1 \in Prefix1, u2 \in Prefix1, b \in BinOpSet}
    \cup {u1 \o u2 \o <<idt(<<"x">>)>> : u1 \in Prefix1, u2 \in Prefix1}
    \cup {u1 \o <<sy(tx.lparen)>> \o u2 \o <<idt(<<"x">>), sy(tx.rparen)>> :
            u1 \in Prefix1, u2 \in Prefix1}

OtherExprs ==
    {<<sy(tx.lparen), idt(<<"x">>), sy(tx.plus), dec(<<"7">>), sy(tx.rparen),
       sy(tx.star), idt(<<"y">>)>>,
     <<idt(<<"f">>), sy(tx.lparen), sy(tx.rparen)>>,
     <<idt(<<"f">>), sy(tx.lparen), idt(<<"x">>), sy(tx.comma), dec(<<"7">>),
       sy(tx.rparen), sy(tx.plus), dec(<<"1">>)>>,
     <<idt(<<"f">>), sy(tx.lparen), idt(<<"x">>), sy(tx.comma), sy(tx.rparen)>>,
     <<idt(<<"f">>), sy(tx.lparen), idt(<<"x">>), dec(<<"7">>), sy(tx.rparen)>>,
     <<idt(<<"a">>), sy(tx.lbrack), idt(<<"x">>), sy(tx.plus), dec(<<"1">>),
       sy(tx.rbrack)>>,
     <<str(<<c_dq, "a", c_bs, "n", c_dq>>)>>,
     <<hex(<<"0", "x", "1", "0">>)>>,
     <<kw(tx.false)>>, <<kw(tx.int)>>, <<sy(tx.lbrace)>>}

\* ss[1] , ss[2] , ... , ss[n]
RECURSIVE CommaJoin(_)
CommaJoin(ss) ==
    IF Len(ss) <= 1 THEN Flatten(ss)
    ELSE Head(ss) \o <<sy(tx.comma)>> \o CommaJoin(Tail(ss))

\* calls f ( ... ) of up to MaxArgs arguments: separated by commas, with a
\* comma after the last one, without the last comma, without any comma;
\* and their prefixes
FuncCallInputs ==
    LET ArgExprs == {<<idt(<<"x">>)>>,
                     <<idt(<<"y">>), sy(tx.plus), dec(<<"1">>)>>}
        ArgSeqs == UNION {[1 .. k -> ArgExprs] : k \in 0 .. MaxArgs}
        Forms(f) == {CommaJoin(f), CommaJoin(f) \o <<sy(tx.comma)>>, Flatten(f)}
                    \cup {CommaJoin(SubSeq(f, 1, Len(f) - 1)) \o f[Len(f)] :
                            k \in {Len(f)} \ {0}}
    IN  Prefixes({<<idt(<<"f">>), sy(tx.lparen)>> \o a \o <<sy(tx.rparen)>> \o r :
                    a \in UNION {Forms(f) : f \in ArgSeqs}, r \in Rests})

\* valid expressions, each followed by the ";" that ends its statement
ValidExprs ==
    {ChainTokens(f) : f \in MixedChains \cup LevelChains} \cup UnaryExprs
    \cup OtherExprs

\* and every prefix of those (truncated inputs)
ExprInputs == Prefixes({e \o <<sy(tx.semi)>> : e \in ValidExprs})

(***************************************************************************)
(* Declaration, statement, block and program inputs.                       *)
(***************************************************************************)
TypeKeys == {kw(tx.int), kw(tx.bool), kw(tx.void)}

\* the token between "[" and "]" of an array declaration
ArrayLenTokens ==
    {dec(x) : x \in DecTexts} \cup {hex(x) : x \in HexTexts}
    \cup {idt(<<"n">>), kw(tx.true), sy(tx.minus), str(<<c_dq, "3", c_dq>>)}

ScalarDecls == {<<ty, idt(<<"x">>), sy(tx.semi)>> : ty \in TypeKeys}

ArrayDecls ==
    {<<ty, idt(<<"x">>), sy(tx.lbrack), n, sy(tx.rbrack), sy(tx.semi)>> :
        ty \in TypeKeys, n \in ArrayLenTokens}

\* declarations that are complete but for their ";"
UntermDecls ==
    {<<ty, idt(<<"x">>)>> : ty \in TypeKeys}
    \cup {<<ty, idt(<<"x">>), sy(tx.lbrack), dec(<<"7">>), sy(tx.rbrack)>> :
            ty \in TypeKeys}

\* what stands where the ";" should: nothing, or tokens the first of which
\* is neither ";" nor the "[" that opens the array form
JunkRests ==
    {<<>>, <<idt(<<"y">>)>>, <<sy(tx.assign), dec(<<"1">>), sy(tx.semi)>>,
     <<sy(tx.rbrace)>>, <<sy(tx.lparen)>>, <<sy(tx.rbrack), sy(tx.semi)>>,
     <<sy(tx.comma), idt(<<"y">>), sy(tx.semi)>>,
     <<kw(tx.int), idt(<<"z">>), sy(tx.semi)>>, <<dec(<<"1">>), sy(tx.semi)>>}

VarDeclInputs ==
    Prefixes({d \o r : d \in ScalarDecls \cup ArrayDecls, r \in Rests})
    \cup {u \o r : u \in UntermDecls, r \in JunkRests}

EmptyBlock == <<sy(tx.lbrace), sy(tx.rbrace)>>

Cond == <<sy(tx.lparen), idt(<<"x">>), sy(tx.rparen)>>

SimpleStmts ==
    {<<kw(tx.break), sy(tx.semi)>>,
     <<kw(tx.continue), sy(tx.semi)>>,
     <<kw(tx.return), sy(tx.semi)>>,
     <<kw(tx.return), idt(<<"x">>), sy(tx.plus), dec(<<"7">>), sy(tx.semi)>>,
     <<idt(<<"f">>), sy(tx.assign), dec(<<"1">>), sy(tx.semi)>>,
     <<idt(<<"a">>), sy(tx.lbrack), dec(<<"0">>), sy(tx.rbrack), sy(tx.assign),
       idt(<<"y">>), sy(tx.semi)>>,
     <<idt(<<"f">>), sy(tx.lparen), sy(tx.rparen), sy(tx.semi)>>,
     <<idt(<<"f">>), sy(tx.lparen), idt(<<"x">>), sy(tx.comma), dec(<<"7">>),
       sy(tx.rparen), sy(tx.semi)>>}

\* the blocks that stand inside the compound statements
InnerBlocks ==
    {EmptyBlock,
     <<sy(tx.lbrace), kw(tx.break), sy(tx.semi), sy(tx.rbrace)>>,
     <<sy(tx.lbrace), kw(tx.int), idt(<<"y">>), sy(tx.semi), idt(<<"y">>),
       sy(tx.assign), dec(<<"7">>), sy(tx.semi), sy(tx.rbrace)>>}

WhileStmts == {<<kw(tx.while)>> \o Cond \o b : b \in InnerBlocks}

IfStmts == {<<kw(tx.if)>> \o Cond \o b : b \in InnerBlocks}

IfElseStmts ==
    {<<kw(tx.if)>> \o Cond \o b1 \o <<kw(tx.else)>> \o b2 :
        b1 \in InnerBlocks, b2 \in InnerBlocks}

\* the statements of the grammar that are enumerated
ValidStmts == SimpleStmts \cup WhileStmts \cup IfStmts \cup IfElseStmts

\* statements the grammar does not have
OtherStmts ==
    {<<kw(tx.if)>> \o Cond \o EmptyBlock \o <<kw(tx.else), idt(<<"x">>), sy(tx.plus),
       dec(<<"7">>)>>,
     <<kw(tx.return), idt(<<"x">>), sy(tx.plus), dec(<<"7">>), sy(tx.rparen),
       sy(tx.semi)>>,
     <<dec(<<"7">>), sy(tx.semi)>>, <<sy(tx.semi)>>, <<kw(tx.def)>>,
     <<kw(tx.else), sy(tx.lbrace), sy(tx.rbrace)>>,
     <<idt(<<"f">>), dec(<<"1">>), sy(tx.semi)>>}

StmtInputs ==
    Prefixes({st \o r : st \in ValidStmts \cup OtherStmts, r \in Rests})

\* the items that blocks are built of: declarations and statements
BlockDeclItems ==
    {<<kw(tx.int), idt(<<"y">>), sy(tx.semi)>>,
     <<kw(tx.bool), idt(<<"b">>), sy(tx.lbrack), dec(<<"7">>), sy(tx.rbrack),
       sy(tx.semi)>>}

BlockStmtItems ==
    {<<idt(<<"x">>), sy(tx.assign), dec(<<"7">>), sy(tx.semi)>>,
     <<idt(<<"f">>), sy(tx.lparen), sy(tx.rparen), sy(tx.semi)>>,
     <<kw(tx.return), sy(tx.semi)>>,
     <<kw(tx.while)>> \o Cond \o EmptyBlock,
     <<kw(tx.if)>> \o Cond \o EmptyBlock,
     <<kw(tx.if)>> \o Cond \o EmptyBlock \o <<kw(tx.else)>> \o EmptyBlock}

BlockItems == BlockDeclItems \cup BlockStmtItems

ItemSeqs == UNION {[1 .. k -> BlockItems] : k \in 0 .. MaxItems}

\* the grammar puts the declarations of a block before its statements
DeclsFirst(f) ==
    \A i, j \in DOMAIN f :
        (i < j /\ f[j] \in BlockDeclItems) => f[i] \in BlockDeclItems

BlockOf(f) == <<sy(tx.lbrace)>> \o Flatten(f) \o <<sy(tx.rbrace)>>

Blocks == {BlockOf(f) : f \in ItemSeqs}

GrammarBlocks == {BlockOf(f) : f \in {g \in ItemSeqs : DeclsFirst(g)}}

BlockInputs == Prefixes({b \o r : b \in Blocks, r \in Rests})

ParamLists ==
    {<<>>, <<kw(tx.int), idt(<<"a">>)>>,
     <<kw(tx.int), idt(<<"a">>), sy(tx.comma), kw(tx.bool), idt(<<"a">>)>>}

Globals ==
    {<<>>, <<kw(tx.int), idt(<<"g">>), sy(tx.semi)>>,
     <<kw(tx.bool), idt(<<"h">>), sy(tx.lbrack), dec(<<"1", "0">>), sy(tx.rbrack),
       sy(tx.semi)>>}

FuncHead(ty, params) ==
    <<kw(tx.def), ty, idt(<<"m">>), sy(tx.lparen)>> \o params \o <<sy(tx.rparen)>>

\* function declarations of up to MaxArgs parameters: separated by commas,
\* with a comma after the last one, without the last comma, without any
\* comma; of each return type, with an empty and a non-empty body
FuncDeclInputs ==
    LET Params == {<<kw(tx.int), idt(<<"a">>)>>, <<kw(tx.bool), idt(<<"b">>)>>}
        ParamSeqs == UNION {[1 .. k -> Params] : k \in 0 .. MaxArgs}
        Forms(f) == {CommaJoin(f), CommaJoin(f) \o <<sy(tx.comma)>>, Flatten(f)}
                    \cup {CommaJoin(SubSeq(f, 1, Len(f) - 1)) \o f[Len(f)] :
                            k \in {Len(f)} \ {0}}
        Bodies == {EmptyBlock,
                   <<sy(tx.lbrace), kw(tx.return), sy(tx.semi), sy(tx.rbrace)>>}
    IN  {FuncHead(ty, pl) \o b \o r :
            ty \in TypeKeys, pl \in UNION {Forms(f) : f \in ParamSeqs},
            b \in Bodies, r \in Rests}

\* top-level declarations: two variables and two functions
TopDecls ==
    {<<kw(tx.int), idt(<<"g">>), sy(tx.semi)>>,
     <<kw(tx.bool), idt(<<"h">>), sy(tx.lbrack), dec(<<"1", "0">>), sy(tx.rbrack),
       sy(tx.semi)>>,
     FuncHead(kw(tx.int), <<>>) \o EmptyBlock,
     <<kw(tx.def), kw(tx.void), idt(<<"k">>), sy(tx.lparen), kw(tx.int),
       idt(<<"a">>), sy(tx.rparen)>> \o EmptyBlock}

\* programs of the grammar: a function with every enumerated block,
\* functions with an empty body between global declarations, and the
\* top-level declarations in every order
ValidPrograms ==
    {FuncHead(kw(tx.void), <<>>) \o b : b \in GrammarBlocks}
    \cup Concats(TopDecls, MaxDecls)
    \cup {g1 \o FuncHead(kw(tx.int), pl) \o EmptyBlock \o g2 :
            g1 \in Globals, g2 \in Globals, pl \in ParamLists}
    \cup {g1 \o g2 : g1 \in Globals, g2 \in Globals}

\* the declarations that may stand before an unterminated one
DeclPrefixes ==
    {<<>>, <<kw(tx.int), idt(<<"g">>), sy(tx.semi)>>,
     FuncHead(kw(tx.void), <<>>) \o EmptyBlock,
     FuncHead(kw(tx.void), <<>>) \o <<sy(tx.lbrace)>>}

UntermPrograms ==
    {pre \o u \o r : pre \in DeclPrefixes, u \in UntermDecls, r \in JunkRests}

\* valid programs and their prefixes, functions whose block mixes
\* declarations and statements, unterminated declarations, and no queue
ProgramInputs ==
    Prefixes(ValidPrograms)
    \cup Prefixes({FuncHead(kw(tx.void), <<>>) \o b : b \in Blocks})
    \cup UntermPrograms \cup {NULL_QUEUE}

\* the token a helper finds at the head: of each type, the keywords of
\* parse_type and others; KEY ";" and ID "int" differ from an expected
\* token in their type only
HeadTokens ==
    {kw(tx.int), kw(tx.bool), kw(tx.void), kw(tx.while), kw(tx.true),
     idt(<<"x">>), dec(<<"7">>), hex(<<"0", "x", "1", "0">>),
     str(<<c_dq, "a", c_dq>>), sy(tx.semi), sy(tx.rbrace), sy(tx.lbrack),
     kw(tx.semi), idt(tx.int), kw(tx.def), kw(tx.else), sy(tx.lbrace),
     kw(tx.break)}

\* followed by nothing or by tokens of later lines; and the empty queue
HelperInputs ==
    LET Followers == {<<>>, <<Token(ID, <<"y">>, 2)>>,
                      <<Token(SYM, tx.semi, 3), Token(KEY, tx.int, 4)>>}
    IN  {<<>>} \cup {<<h>> \o f : h \in HeadTokens, f \in Followers}

Cases ==
    [rule : {"parse_lit"}, input : LitInputs]
    \cup [rule : {"parse_expr"}, input : ExprInputs]
    \cup [rule : {"parse_vardecl"}, input : VarDeclInputs]
    \cup [rule : {"parse_statement"}, input : StmtInputs]
    \cup [rule : {"parse_block"}, input : BlockInputs]
    \cup [rule : {"parse_funccall"}, input : FuncCallInputs]
    \cup [rule : {"parse_funcdecl"}, input : FuncDeclInputs]
    \cup [rule : {"parse"}, input : ProgramInputs]
    \cup [rule : {"parse_type", "parse_id", "match_and_discard_next_token",
                  "check_next_token", "check_next_token_type",
                  "get_next_token_line", "parse_statement"},
          input : HelperInputs]

\* the expected type and text that match_and_discard_next_token,
\* check_next_token and (the type only) check_next_token_type are given
MatchArgs ==
    {[type |-> SYM, text |-> tx.semi], [type |-> KEY, text |-> tx.int],
     [type |-> SYM, text |-> tx.rbrace]}

(***************************************************************************)
(* The state machine: an entry point is called on an input.                *)
(***************************************************************************)
Init ==
    /\ \E c \in Cases : rule = c.rule /\ input = c.input
    /\ pc = "start"
    /\ ps = NewState(IF input = NULL_QUEUE THEN <<>> ELSE input, DefaultOracle)
    /\ prog_vars = <<>>
    /\ prog_funcs = <<>>
    /\ arg \in IF rule \in {"match_and_discard_next_token", "check_next_token",
                            "check_next_token_type"}
               THEN MatchArgs
               ELSE {NULL}

\* the call of the parsing function f under oracle o
Run(f, o) == [Call(f, [ps EXCEPT !.orc = o]) EXCEPT !.orc = DefaultOracle]

CallParseLit ==
    /\ rule = "parse_lit" /\ pc = "start"
    /\ \E o \in Oracles : ps' = [parse_lit([ps EXCEPT !.orc = o]) EXCEPT !.orc = DefaultOracle]
    /\ pc' = "done"
    /\ UNCHANGED <<rule, input, prog_vars, prog_funcs, arg>>

CallParseExpr ==
    /\ rule = "parse_expr" /\ pc = "start"
    /\ \E o \in Oracles : ps' = Run("parse_expr", o)
    /\ pc' = "done"
    /\ UNCHANGED <<rule, input, prog_vars, prog_funcs, arg>>

CallParseVardecl ==
    /\ rule = "parse_vardecl" /\ pc = "start"
    /\ \E o \in Oracles : ps' = [parse_vardecl([ps EXCEPT !.orc = o]) EXCEPT !.orc = DefaultOracle]
    /\ pc' = "done"
    /\ UNCHANGED <<rule, input, prog_vars, prog_funcs, arg>>

CallParseStatement ==
    /\ rule = "parse_statement" /\ pc = "start"
    /\ \E o \in Oracles : ps' = Run("parse_statement", o)
    /\ pc' = "done"
    /\ UNCHANGED <<rule, input, prog_vars, prog_funcs, arg>>

CallParseBlock ==
    /\ rule = "parse_block" /\ pc = "start"
    /\ \E o \in Oracles : ps' = Run("parse_block", o)
    /\ pc' = "done"
    /\ UNCHANGED <<rule, input, prog_vars, prog_funcs, arg>>

CallParseFunccall ==
    /\ rule = "parse_funccall" /\ pc = "start"
    /\ \E o \in Oracles : ps' = Run("parse_funccall", o)
    /\ pc' = "done"
    /\ UNCHANGED <<rule, input, prog_vars, prog_funcs, arg>>

CallParseFuncdecl ==
    /\ rule = "parse_funcdecl" /\ pc = "start"
    /\ \E o \in Oracles : ps' = Run("parse_funcdecl", o)
    /\ pc' = "done"
    /\ UNCHANGED <<rule, input, prog_vars, prog_funcs, arg>>

CallParseType ==
    /\ rule = "parse_type" /\ pc = "start"
    /\ \E o \in Oracles : ps' = [parse_type([ps EXCEPT !.orc = o]) EXCEPT !.orc = DefaultOracle]
    /\ pc' = "done"
    /\ UNCHANGED <<rule, input, prog_vars, prog_funcs, arg>>

CallParseId ==
    /\ rule = "parse_id" /\ pc = "start"
    /\ \E o \in Oracles : ps' = [parse_id([ps EXCEPT !.orc = o]) EXCEPT !.orc = DefaultOracle]
    /\ pc' = "done"
    /\ UNCHANGED <<rule, input, prog_vars, prog_funcs, arg>>

CallMatchAndDiscard ==
    /\ rule = "match_and_discard_next_token" /\ pc = "start"
    /\ \E o \in Oracles :
          ps' = [match_and_discard_next_token([ps EXCEPT !.orc = o],
                                              arg.type, arg.text)
                 EXCEPT !.orc = DefaultOracle]
    /\ pc' = "done"
    /\ UNCHANGED <<rule, input, prog_vars, prog_funcs, arg>>

CallCheckNextToken ==
    /\ rule = "check_next_token" /\ pc = "start"
    /\ ps' = Ret(ps, check_next_token(ps, arg.type, arg.text))
    /\ pc' = "done"
    /\ UNCHANGED <<rule, input, prog_vars, prog_funcs, arg>>

CallCheckNextTokenType ==
    /\ rule = "check_next_token_type" /\ pc = "start"
    /\ ps' = Ret(ps, check_next_token_type(ps, arg.type))
    /\ pc' = "done"
    /\ UNCHANGED <<rule, input, prog_vars, prog_funcs, arg>>

CallGetNextTokenLine ==
    /\ rule = "get_next_token_line" /\ pc = "start"
    /\ ps' = get_next_token_line(ps)
    /\ pc' = "done"
    /\ UNCHANGED <<rule, input, prog_vars, prog_funcs, arg>>

\* ParseEnter, were a queue without tokens refused as the null queue is
ParseEnter_refuses_empty ==
    /\ rule = "parse" /\ pc = "start"
    /\ IF input = NULL_QUEUE \/ input = <<>>
       THEN /\ ps' = Error_throw_printf(ps, "NullQueue", <<>>, <<>>, 0)
            /\ pc' = "done"
       ELSE /\ ps' = ps
            /\ pc' = "program"
    /\ UNCHANGED <<rule, input, prog_vars, prog_funcs, arg>>

\* parse: the null check, then parse_program
ParseEnter ==
    /\ rule = "parse" /\ pc = "start"
    /\ IF input = NULL_QUEUE
       THEN /\ ps' = Error_throw_printf(ps, "NullQueue", <<>>, <<>>, 0)
            /\ pc' = "done"
       ELSE /\ ps' = ps
            /\ pc' = "program"
    /\ UNCHANGED <<rule, input, prog_vars, prog_funcs, arg>>

\* parse_program: one pass of the loop, the next token being "def"
ParseProgramFunc ==
    /\ pc = "program"
    /\ ~TokenQueue_is_empty(ps)
    /\ check_next_token(ps, KEY, tx.def)
    /\ \E o \in Oracles :
          /\ ps' = LoopPass(ps, Run("parse_funcdecl", o))
          /\ prog_funcs' = IF ps'.st = "ok" THEN Append(prog_funcs, ps'.val)
                           ELSE prog_funcs
          /\ pc' = IF ps'.st = "ok" THEN "program" ELSE "done"
    /\ UNCHANGED <<rule, input, prog_vars, arg>>

\* ParseProgramVar, were a declaration that fails to parse passed over:
\* the loop goes on with the queue and the state it had
ParseProgramVar_retries ==
    /\ pc = "program"
    /\ ~TokenQueue_is_empty(ps)
    /\ ~check_next_token(ps, KEY, tx.def)
    /\ \E o \in Oracles :
          LET e == [parse_vardecl([ps EXCEPT !.orc = o]) EXCEPT !.orc = DefaultOracle]
          IN  /\ ps' = LoopPass(ps, IF e.st = "ok" THEN e ELSE ps)
              /\ prog_vars' = IF e.st = "ok" THEN Append(prog_vars, e.val)
                              ELSE prog_vars
              /\ pc' = "program"
    /\ UNCHANGED <<rule, input, prog_funcs, arg>>

\* ParseProgramVar, were the declaration put at the front of the list
ParseProgramVar_prepends ==
    /\ pc = "program"
    /\ ~TokenQueue_is_empty(ps)
    /\ ~check_next_token(ps, KEY, tx.def)
    /\ \E o \in Oracles :
          /\ ps' = [parse_vardecl([ps EXCEPT !.orc = o]) EXCEPT !.orc = DefaultOracle]
          /\ prog_vars' = IF ps'.st = "ok" THEN <<ps'.val>> \o prog_vars
                          ELSE prog_vars
          /\ pc' = IF ps'.st = "ok" THEN "program" ELSE "done"
    /\ UNCHANGED <<rule, input, prog_funcs, arg>>

\* parse_program: one pass of the loop, the next token being anything else
ParseProgramVar ==
    /\ pc = "program"
    /\ ~TokenQueue_is_empty(ps)
    /\ ~check_next_token(ps, KEY, tx.def)
    /\ \E o \in Oracles :
          /\ ps' = LoopPass(ps, [parse_vardecl([ps EXCEPT !.orc = o]) EXCEPT !.orc = DefaultOracle])
          /\ prog_vars' = IF ps'.st = "ok" THEN Append(prog_vars, ps'.val)
                          ELSE prog_vars
          /\ pc' = IF ps'.st = "ok" THEN "program" ELSE "done"
    /\ UNCHANGED <<rule, input, prog_funcs, arg>>

\* parse_program: the queue is empty, the Program node is returned
ParseProgramReturn ==
    /\ pc = "program"
    /\ TokenQueue_is_empty(ps)
    /\ ps' = Ret(ps, ProgramNode_new(prog_vars, prog_funcs))
    /\ pc' = "done"
    /\ UNCHANGED <<rule, input, prog_vars, prog_funcs, arg>>

Next ==
    \/ CallParseLit
    \/ CallParseExpr
    \/ CallParseVardecl
    \/ CallParseStatement
    \/ CallParseBlock
    \/ CallParseFunccall
    \/ CallParseFuncdecl
    \/ CallParseType
    \/ CallParseId
    \/ CallMatchAndDiscard
    \/ CallCheckNextToken
    \/ CallCheckNextTokenType
    \/ CallGetNextTokenLine
    \/ ParseEnter
    \/ ParseProgramFunc
    \/ ParseProgramVar
    \/ ParseProgramReturn

Spec == Init /\ [][Next]_vars

(***************************************************************************)
(* Claims.                                                                 *)
(***************************************************************************)
Done(r) == rule = r /\ pc = "done"

\* C1: every call of parse on a finite token sequence ends in exactly one of
\* two outcomes, a returned Program node or exactly one raised parse error;
\* nothing else happens, such as the read of a token that is not in the queue.
C1_SingleOutcome ==
    Done("parse") =>
        /\ ~ps.wild
        /\ ~ps.rmempty
        /\ \/ ps.st = "ok" /\ ps.nerr = 0 /\ ps.val.type = "PROGRAM"
           \/ ps.st = "error" /\ ps.nerr = 1

\* C2: on a valid program of the grammar parse returns a Program node, and
\* the token queue is empty when it returns.
C2_ValidProgramAccepted ==
    (Done("parse") /\ input \in ValidPrograms) =>
        /\ ps.st = "ok"
        /\ ps.val.type = "PROGRAM"
        /\ ps.q = <<>>

\* the node of the operand at position i of a chain
OperandNode(i) ==
    CASE i % 4 = 1 -> LocationNode_new(<<"x">>, NULL, 1)
      [] i % 4 = 2 -> LiteralNode_new_int(7, 1)
      [] i % 4 = 3 -> LocationNode_new(<<"y">>, NULL, 1)
      [] OTHER     -> LiteralNode_new_bool(TRUE, 1)

Semi == <<sy(tx.semi)>>

Prefixed(u, node) ==
    IF u = <<>> THEN node
    ELSE IF u = <<sy(tx.minus)>> THEN UnaryOpNode_new("NEGOP", node, 1)
    ELSE UnaryOpNode_new("NOTOP", node, 1)

\* C3: for operators op1, op2 of two different levels, a op1 b op2 c parses
\* to the tree whose root is the operator of the looser level and whose
\* other operator is a child subtree, whichever of the two comes first; and
\* a prefix - or ! applies to its operand alone, under any binary operator.
C3_Precedence ==
    Done("parse_expr") =>
        /\ \A b1, b2 \in BinOpSet :
              (b1.level # b2.level /\ input = ChainTokens(<<b1, b2>>) \o Semi)
              => /\ ps.st = "ok"
                 /\ ps.q = Semi
                 /\ ps.val =
                      IF b1.level < b2.level
                      THEN BinaryOpNode_new(b1.op, OperandNode(1),
                               BinaryOpNode_new(b2.op, OperandNode(2),
                                                OperandNode(3), 1), 1)
                      ELSE BinaryOpNode_new(b2.op,
                               BinaryOpNode_new(b1.op, OperandNode(1),
                                                OperandNode(2), 1),
                               OperandNode(3), 1)
        /\ \A u1, u2 \in Prefix1 : \A b \in BinOpSet :
              input = u1 \o <<idt(<<"x">>), sy(b.text)>> \o u2
                      \o <<dec(<<"7">>)>> \o Semi
              => /\ ps.st = "ok"
                 /\ ps.q = Semi
                 /\ ps.val = BinaryOpNode_new(b.op,
                                 Prefixed(u1, OperandNode(1)),
                                 Prefixed(u2, OperandNode(2)), 1)

\* x + 7 * y ; and - x * ! 7 ; have been parsed
C3_Witness ==
    /\ Done("parse_expr")
    /\ ps.st = "ok"
    /\ \/ /\ input = <<idt(<<"x">>), sy(tx.plus), dec(<<"7">>), sy(tx.star),
                       idt(<<"y">>), sy(tx.semi)>>
          /\ ps.val.op = "ADDOP"
          /\ ps.val.right.op = "MULOP"
       \/ /\ input = <<sy(tx.minus), idt(<<"x">>), sy(tx.star), sy(tx.not),
                       dec(<<"7">>), sy(tx.semi)>>
          /\ ps.val.op = "MULOP"
          /\ ps.val.left.op = "NEGOP"

\* the left-leaning fold of operands i+1, i+2, ... onto acc
RECURSIVE LeftFold(_, _, _)
LeftFold(acc, ops, i) ==
    IF ops = <<>> THEN acc
    ELSE LeftFold(BinaryOpNode_new(Head(ops).op, acc, OperandNode(i + 1), 1),
                  Tail(ops), i + 1)

\* C4: a chain x1 op x2 op' x3 ... of operators of one level parses to the
\* left-leaning fold ((x1 op x2) op' x3) ..., each node carrying the
\* operator written at its position.
C4_LeftAssociative ==
    Done("parse_expr") =>
        \A f \in LevelChains :
            (f # <<>> /\ input = ChainTokens(f) \o Semi)
            => /\ ps.st = "ok"
               /\ ps.q = Semi
               /\ ps.val = LeftFold(OperandNode(1), f, 1)

\* x - 7 - y ; has been parsed to SUB(SUB(x, 7), y)
C4_Witness ==
    /\ Done("parse_expr")
    /\ input = <<idt(<<"x">>), sy(tx.minus), dec(<<"7">>), sy(tx.minus),
                 idt(<<"y">>), sy(tx.semi)>>
    /\ ps.st = "ok"
    /\ ps.val.op = "SUBOP"
    /\ ps.val.left.type = "BINARYOP"
    /\ ps.val.left.op = "SUBOP"
    /\ ps.val.right = LocationNode_new(<<"y">>, NULL, 1)


\* the nodes of the condition ( x ) and of the block { }
CondNode == LocationNode_new(<<"x">>, NULL, 1)

EmptyBlockNode == BlockNode_new(<<>>, <<>>, 1)

\* C5: parse_statement on if ( x ) { } else { } consumes the else and parses
\* the else-branch as a block, returning a conditional with condition
\* Location x, an empty then-block and a present, empty else-block; when no
\* else follows the then-block, the else-branch is absent.
C5_IfElseBlock ==
    Done("parse_statement") =>
        \A r \in Rests :
            /\ input = <<kw(tx.if)>> \o Cond \o EmptyBlock \o <<kw(tx.else)>>
                       \o EmptyBlock \o r
               => /\ ps.st = "ok"
                  /\ ps.q = r
                  /\ ps.val = ConditionalNode_new(CondNode, EmptyBlockNode,
                                                  EmptyBlockNode, 1)
            /\ input = <<kw(tx.if)>> \o Cond \o EmptyBlock \o r
               => /\ ps.st = "ok"
                  /\ ps.q = r
                  /\ ps.val = ConditionalNode_new(CondNode, EmptyBlockNode,
                                                  NULL, 1)


\* C6: in statement position and in base-expression position an identifier
\* followed by ( is parsed as a function call and an identifier followed by
\* another token as a location: f ( ) ; is a call statement, and f = 1 ; an
\* assignment to Location f with no index, of Literal 1.
C6_CallOrLocation ==
    /\ Done("parse_statement") =>
          \A r \in Rests :
              /\ input = <<idt(<<"f">>), sy(tx.lparen), sy(tx.rparen),
                           sy(tx.semi)>> \o r
                 => /\ ps.st = "ok"
                    /\ ps.q = r
                    /\ ps.val = FuncCallNode_new(<<"f">>, <<>>, 1)
              /\ input = <<idt(<<"f">>), sy(tx.assign), dec(<<"1">>),
                           sy(tx.semi)>> \o r
                 => /\ ps.st = "ok"
                    /\ ps.q = r
                    /\ ps.val = AssignmentNode_new(
                                    LocationNode_new(<<"f">>, NULL, 1),
                                    LiteralNode_new_int(1, 1), 1)
    /\ Done("parse_expr") =>
          /\ input = <<idt(<<"f">>), sy(tx.lparen), sy(tx.rparen)>> \o Semi
             => /\ ps.st = "ok"
                /\ ps.q = Semi
                /\ ps.val = FuncCallNode_new(<<"f">>, <<>>, 1)
          /\ input = <<idt(<<"x">>)>> \o Semi
             => /\ ps.st = "ok"
                /\ ps.q = Semi
                /\ ps.val = LocationNode_new(<<"x">>, NULL, 1)
          /\ \A b \in BinOpSet :
                input = <<idt(<<"x">>), sy(b.text), dec(<<"7">>)>> \o Semi
                => /\ ps.st = "ok"
                   /\ ps.val.left = LocationNode_new(<<"x">>, NULL, 1)

\* f ( ) ; has been parsed as a statement, to a call
C6_Witness ==
    /\ Done("parse_statement")
    /\ input = <<idt(<<"f">>), sy(tx.lparen), sy(tx.rparen), sy(tx.semi)>>
    /\ ps.st = "ok"
    /\ ps.val.type = "FUNCCALL"
    /\ ps.q = <<>>


\* the decimal numeral of a non-negative int
RECURSIVE Numeral(_)
Numeral(i) ==
    LET d == <<"0", "1", "2", "3", "4", "5", "6", "7", "8", "9">>
    IN  IF i < 10 THEN <<d[i + 1]>>
        ELSE Numeral(i \div 10) \o <<d[(i % 10) + 1]>>

\* the int i is the number that the decimal literal text denotes
IsNumber(i, text) == i >= 0 /\ Numeral(i) = text

TypeOfKey(k) ==
    CASE k = kw(tx.int) -> INT [] k = kw(tx.bool) -> BOOL [] k = kw(tx.void) -> VOID

\* C7: parse_vardecl on Type Identifier [ N ] ; with N a decimal literal
\* returns a VarDecl of that name and type with is_array true and
\* array_length N; on Type Identifier ; one with is_array false and
\* array_length 1.
C7_VarDecl ==
    Done("parse_vardecl") =>
        \A ty \in TypeKeys : \A r \in Rests :
            /\ \A n \in DecTexts :
                  input = <<ty, idt(<<"x">>), sy(tx.lbrack), dec(n),
                            sy(tx.rbrack), sy(tx.semi)>> \o r
                  => /\ ps.st = "ok"
                     /\ ps.q = r
                     /\ ps.val.type = "VARDECL"
                     /\ ps.val.name = <<"x">>
                     /\ ps.val.dtype = TypeOfKey(ty)
                     /\ ps.val.is_array
                     /\ IsNumber(ps.val.array_length, n)
            /\ input = <<ty, idt(<<"x">>), sy(tx.semi)>> \o r
               => /\ ps.st = "ok"
                  /\ ps.q = r
                  /\ ps.val = VarDeclNode_new(<<"x">>, TypeOfKey(ty), FALSE,
                                              1, 1)


\* C8: a variable declaration without its ; (the input ends after it, or
\* another token follows it) makes parse raise a token-mismatch or
\* unexpected-end-of-input error: parse returns no Program, and no VarDecl
\* of the unterminated declaration is among the declarations collected.
C8_MissingSemicolon ==
    Done("parse") =>
        \A pre \in DeclPrefixes : \A u \in UntermDecls : \A r \in JunkRests :
            input = pre \o u \o r
            => /\ ps.st = "error"
               /\ ps.nerr = 1
               /\ ps.err.kind \in {"TokenMismatch", "UnexpectedEndOfInput"}
               /\ \A i \in DOMAIN prog_vars : prog_vars[i].name # <<"x">>

\* int x and int x y have been given to parse
C8_Witness ==
    /\ Done("parse")
    /\ input = <<kw(tx.int), idt(<<"x">>), idt(<<"y">>)>>
    /\ ps.st = "error"
    /\ ps.nerr = 1


\* the four escape forms in their order of priority: the character after
\* the backslash, and the character the form denotes
EscapeForms ==
    <<[c |-> "n", to |-> c_nl], [c |-> "t", to |-> c_tab],
      [c |-> c_bs, to |-> c_bs], [c |-> c_dq, to |-> c_dq]>>

\* where the form of priority k occurs in the text p
Occurrences(p, k) ==
    {i \in 1 .. Len(p) - 1 : p[i] = c_bs /\ p[i + 1] = EscapeForms[k].c}

Least(S) == CHOOSE i \in S : \A j \in S : i <= j

\* p with the leftmost occurrence of its highest-priority form replaced
OneEscapeReplaced(p) ==
    LET present == {k \in DOMAIN EscapeForms : Occurrences(p, k) # {}}
    IN  IF present = {} THEN p
        ELSE LET k == Least(present)
                 i == Least(Occurrences(p, k))
             IN  SubSeq(p, 1, i - 1) \o <<EscapeForms[k].to>>
                 \o SubSeq(p, i + 2, Len(p))

\* C9: parse_lit on a string-literal token returns the text without its two
\* quotes and with exactly one escape occurrence replaced by the character
\* it denotes, the leftmost occurrence of the highest-priority form present
\* (\n, then \t, then \\, then \"); the other characters are kept in order,
\* and the text is unchanged when no form occurs.
C9_StringEscape ==
    Done("parse_lit") =>
        \A t \in StrTexts : \A r \in Rests :
            input = <<str(t)>> \o r
            => /\ ps.st = "ok"
               /\ ps.q = r
               /\ ps.val = LiteralNode_new_string(
                               OneEscapeReplaced(SubSeq(t, 2, Len(t) - 1)), 1)

\* C10: parse_block on { } returns without error a Block whose variables
\* and statements are both empty, having consumed exactly those two tokens.
C10_EmptyBlock ==
    Done("parse_block") =>
        \A r \in Rests :
            input = EmptyBlock \o r
            => /\ ps.st = "ok"
               /\ ps.nerr = 0
               /\ ps.val = BlockNode_new(<<>>, <<>>, 1)
               /\ ps.q = r

\* { } ; has been given to parse_block, and the ; is left
C10_Witness ==
    /\ Done("parse_block")
    /\ input = EmptyBlock \o Semi
    /\ ps.st = "ok"
    /\ ps.val.type = "BLOCK"
    /\ ps.val.statements = <<>>
    /\ ps.q = Semi


\* C11: parse on an empty queue that is not null raises no error and returns
\* a Program node whose variable list and function list are both empty.
C11_EmptyProgram ==
    (Done("parse") /\ input = <<>>) =>
        /\ ps.st = "ok"
        /\ ps.nerr = 0
        /\ ps.val = ProgramNode_new(<<>>, <<>>)

\* parse has returned from the call on the empty queue
C11_Witness ==
    /\ Done("parse")
    /\ input = <<>>
    /\ ps.st = "ok"
    /\ ps.val.type = "PROGRAM"
    /\ ps.val.functions = <<>>


\* the head of the input is the token that the call of
\* match_and_discard_next_token expects
HeadMatches ==
    /\ Head(input).type = arg.type
    /\ Head(input).text = arg.text

\* C12: match_and_discard_next_token removes the next token only if it has
\* the expected type and the expected text; when it has not, the call fails
\* with an error and the queue is left as it was before the call.
C12_MatchLeavesQueue ==
    (Done("match_and_discard_next_token") /\ input # <<>>) =>
        IF HeadMatches
        THEN ps.st = "ok" /\ ps.q = Tail(input)
        ELSE ps.st = "error" /\ ps.q = input

\* C13: when the next token has the wrong type or text, the error of
\* match_and_discard_next_token is a token mismatch that names the expected
\* and the found text, also when the wrong token is the last of the queue:
\* the error then carries the line of the wrong token itself and is not an
\* unexpected end of input.
C13_MismatchError ==
    (Done("match_and_discard_next_token") /\ input # <<>> /\ ~HeadMatches) =>
        /\ ps.st = "error"
        /\ ps.err.kind = "TokenMismatch"
        /\ ps.err.expected = arg.text
        /\ ps.err.found = Head(input).text
        /\ Len(input) = 1 => ps.err.line = Head(input).line

\* C14: parse_type maps the keywords int, bool, void to INT, BOOL, VOID and
\* fails with an invalid-type error on any other token; parse_id fails with
\* an invalid-identifier error on any token that is no identifier; whether
\* or not a token follows the offending one.
C14_InvalidTypeOrId ==
    /\ (Done("parse_type") /\ input # <<>>) =>
          IF Head(input) \in TypeKeys
          THEN /\ ps.st = "ok"
               /\ ps.val = TypeOfKey(Head(input))
               /\ ps.q = Tail(input)
          ELSE /\ ps.st = "error"
               /\ ps.err.kind = "InvalidType"
    /\ (Done("parse_id") /\ input # <<>>) =>
          IF Head(input).type = ID
          THEN /\ ps.st = "ok"
               /\ ps.val = Head(input).text
               /\ ps.q = Tail(input)
          ELSE /\ ps.st = "error"
               /\ ps.err.kind = "InvalidID"


\* C15: parse_vardecl accepts the array form only with an integer literal
\* between [ and ]: on Type Identifier [ t ] ; where t is an identifier, a
\* keyword, a symbol or a string literal it raises an error and returns no
\* VarDecl.
C15_ArrayLengthIsLiteral ==
    Done("parse_vardecl") =>
        \A ty \in TypeKeys : \A r \in Rests :
            \A t \in {a \in ArrayLenTokens : a.type \notin {DECLIT, HEXLIT}} :
                input = <<ty, idt(<<"x">>), sy(tx.lbrack), t, sy(tx.rbrack),
                          sy(tx.semi)>> \o r
                => /\ ps.st = "error"
                   /\ ps.nerr = 1


\* the values of the enumerated literals, reduced modulo 2^32 and read as
\* two's complement: 2^31 is INT_MIN, 2^32 + 1 is 1, 2^63 - 1 is -1
INT_MIN == -2147483647 - 1

DecValues ==
    {[text |-> <<"0">>, value |-> 0], [text |-> <<"7">>, value |-> 7],
     [text |-> <<"1", "0">>, value |-> 10],
     [text |-> <<"2", "1", "4", "7", "4", "8", "3", "6", "4", "7">>,
      value |-> 2147483647],
     [text |-> <<"2", "1", "4", "7", "4", "8", "3", "6", "4", "8">>,
      value |-> INT_MIN],
     [text |-> <<"4", "2", "9", "4", "9", "6", "7", "2", "9", "7">>,
      value |-> 1],
     [text |-> <<"9", "2", "2", "3", "3", "7", "2", "0", "3", "6", "8", "5",
                 "4", "7", "7", "5", "8", "0", "7">>,
      value |-> -1]}

HexValues ==
    {[text |-> <<"0", "x", "1", "0">>, value |-> 16],
     [text |-> <<"0", "x", "f", "F">>, value |-> 255],
     [text |-> <<"0", "x", "8", "0", "0", "0", "0", "0", "0", "0">>,
      value |-> INT_MIN],
     [text |-> <<"0", "x", "1", "0", "0", "0", "0", "0", "0", "1", "0">>,
      value |-> 16],
     [text |-> <<"0", "x", "7", "f", "f", "f", "f", "f", "f", "f", "f", "f",
                 "f", "f", "f", "f", "f", "f">>,
      value |-> -1]}

\* C16: parse_lit on a decimal literal returns the value of its digits in
\* base 10 and on a hex literal the value in base 16; a value v that does
\* not fit 32 bits (0 <= v < 2^63) raises no error and gives v modulo 2^32
\* read as a two's-complement int.
C16_LiteralValue ==
    Done("parse_lit") =>
        \A r \in Rests :
            /\ \A n \in DecTexts :
                  input = <<dec(n)>> \o r
                  => /\ ps.st = "ok"
                     /\ ps.nerr = 0
                     /\ ps.q = r
                     /\ \E e \in DecValues :
                           /\ e.text = n
                           /\ ps.val = LiteralNode_new_int(e.value, 1)
                     /\ Len(n) < 10 => IsNumber(ps.val.integer, n)
            /\ \A h \in HexTexts :
                  input = <<hex(h)>> \o r
                  => /\ ps.st = "ok"
                     /\ ps.nerr = 0
                     /\ ps.q = r
                     /\ \E e \in HexValues :
                           /\ e.text = h
                           /\ ps.val = LiteralNode_new_int(e.value, 1)

\* 4294967297, which is 2^32 + 1, has been parsed to 1
C16_Witness ==
    /\ Done("parse_lit")
    /\ input = <<dec(<<"4", "2", "9", "4", "9", "6", "7", "2", "9", "7">>)>>
    /\ ps.st = "ok"
    /\ ps.val.integer = 1


\* C17: the array_length of an array declaration is the value parse_lit
\* gives the literal between [ and ]: a hex literal is read in base 16
\* (int a[0x10]; has length 16), a decimal literal in base 10.
C17_ArrayLengthValue ==
    Done("parse_vardecl") =>
        \A ty \in TypeKeys : \A r \in Rests :
            \A e \in DecValues \cup HexValues :
                \A t \in {dec(e.text), hex(e.text)} \cap ArrayLenTokens :
                    input = <<ty, idt(<<"x">>), sy(tx.lbrack), t,
                              sy(tx.rbrack), sy(tx.semi)>> \o r
                    => /\ ps.st = "ok"
                       /\ ps.val.type = "VARDECL"
                       /\ ps.val.is_array
                       /\ ps.val.array_length = e.value


IsSuffix(a, b) == \E k \in 0 .. Len(b) : a = SubSeq(b, k + 1, Len(b))

Lookaheads == {"check_next_token", "check_next_token_type", "get_next_token_line"}

\* C18: the token queue is at all times a suffix of the input: every step
\* of a parse leaves a suffix of the queue it found (tokens leave at the
\* head, in order, and none is put back or moved), and check_next_token,
\* check_next_token_type and get_next_token_line leave the queue as it is.
C18_QueueIsSuffix ==
    [][/\ IsSuffix(ps'.q, ps.q)
       /\ IsSuffix(ps.q, input)
       /\ IsSuffix(ps'.q, input')
       /\ rule \in Lookaheads => ps'.q = ps.q]_vars

\* a parse has stopped with some of the input's tokens consumed and the
\* others still queued
C18_Witness ==
    /\ Done("parse")
    /\ ps.q # <<>>
    /\ Len(ps.q) < Len(input)
    /\ IsSuffix(ps.q, input)


\* the top-level declarations with the node of each
TopDeclNodes ==
    {[tokens |-> <<kw(tx.int), idt(<<"g">>), sy(tx.semi)>>, func |-> FALSE,
      node |-> VarDeclNode_new(<<"g">>, INT, FALSE, 1, 1)],
     [tokens |-> <<kw(tx.bool), idt(<<"h">>), sy(tx.lbrack), dec(<<"1", "0">>),
                   sy(tx.rbrack), sy(tx.semi)>>, func |-> FALSE,
      node |-> VarDeclNode_new(<<"h">>, BOOL, TRUE, 10, 1)],
     [tokens |-> <<kw(tx.def), kw(tx.int), idt(<<"m">>), sy(tx.lparen),
                   sy(tx.rparen), sy(tx.lbrace), sy(tx.rbrace)>>, func |-> TRUE,
      node |-> FuncDeclNode_new(<<"m">>, INT, <<>>, EmptyBlockNode, 1)],
     [tokens |-> <<kw(tx.def), kw(tx.void), idt(<<"k">>), sy(tx.lparen),
                   kw(tx.int), idt(<<"a">>), sy(tx.rparen), sy(tx.lbrace),
                   sy(tx.rbrace)>>, func |-> TRUE,
      node |-> FuncDeclNode_new(<<"k">>, VOID, <<Parameter(<<"a">>, INT)>>,
                                EmptyBlockNode, 1)]}

IsFuncDecl(d) == d.func

IsVarDecl(d) == ~d.func

NodesOf(ds) == [i \in DOMAIN ds |-> ds[i].node]

\* C19: parse_program parses a declaration that starts with def as a
\* FuncDecl and appends it to the functions, any other as a VarDecl and
\* appends it to the globals: the Program holds the variable declarations
\* in their source order and the function declarations in theirs, one
\* entry per top-level declaration.
C19_ProgramLists ==
    Done("parse") =>
        \A ds \in UNION {[1 .. k -> TopDeclNodes] : k \in 0 .. MaxDecls} :
            input = Flatten([i \in DOMAIN ds |-> ds[i].tokens])
            => /\ ps.st = "ok"
               /\ ps.q = <<>>
               /\ ps.val.type = "PROGRAM"
               /\ ps.val.variables = NodesOf(SelectSeq(ds, IsVarDecl))
               /\ ps.val.functions = NodesOf(SelectSeq(ds, IsFuncDecl))
               /\ Len(ps.val.variables) + Len(ps.val.functions) = Len(ds)

\* bool h[10]; def int m() {} int g; has been parsed: h before g
C19_Witness ==
    /\ Done("parse")
    /\ input = <<kw(tx.bool), idt(<<"h">>), sy(tx.lbrack), dec(<<"1", "0">>),
                 sy(tx.rbrack), sy(tx.semi), kw(tx.def), kw(tx.int),
                 idt(<<"m">>), sy(tx.lparen), sy(tx.rparen), sy(tx.lbrace),
                 sy(tx.rbrace), kw(tx.int), idt(<<"g">>), sy(tx.semi)>>
    /\ ps.st = "ok"
    /\ Len(ps.val.variables) = 2
    /\ ps.val.variables[1].name = <<"h">>
    /\ Len(ps.val.functions) = 1


\* the items of the enumerated blocks with the node of each; the last one
\* has an else-branch
BlockItemNodes ==
    {[tokens |-> <<kw(tx.int), idt(<<"y">>), sy(tx.semi)>>, local |-> TRUE,
      else |-> FALSE, node |-> VarDeclNode_new(<<"y">>, INT, FALSE, 1, 1)],
     [tokens |-> <<kw(tx.bool), idt(<<"b">>), sy(tx.lbrack), dec(<<"7">>),
                   sy(tx.rbrack), sy(tx.semi)>>, local |-> TRUE,
      else |-> FALSE, node |-> VarDeclNode_new(<<"b">>, BOOL, TRUE, 7, 1)],
     [tokens |-> <<idt(<<"x">>), sy(tx.assign), dec(<<"7">>), sy(tx.semi)>>,
      local |-> FALSE, else |-> FALSE,
      node |-> AssignmentNode_new(LocationNode_new(<<"x">>, NULL, 1),
                                  LiteralNode_new_int(7, 1), 1)],
     [tokens |-> <<idt(<<"f">>), sy(tx.lparen), sy(tx.rparen), sy(tx.semi)>>,
      local |-> FALSE, else |-> FALSE,
      node |-> FuncCallNode_new(<<"f">>, <<>>, 1)],
     [tokens |-> <<kw(tx.return), sy(tx.semi)>>, local |-> FALSE,
      else |-> FALSE, node |-> ReturnNode_new(NULL, 1)],
     [tokens |-> <<kw(tx.while), sy(tx.lparen), idt(<<"x">>), sy(tx.rparen),
                   sy(tx.lbrace), sy(tx.rbrace)>>, local |-> FALSE,
      else |-> FALSE, node |-> WhileLoopNode_new(CondNode, EmptyBlockNode, 1)],
     [tokens |-> <<kw(tx.if), sy(tx.lparen), idt(<<"x">>), sy(tx.rparen),
                   sy(tx.lbrace), sy(tx.rbrace)>>, local |-> FALSE,
      else |-> FALSE,
      node |-> ConditionalNode_new(CondNode, EmptyBlockNode, NULL, 1)],
     [tokens |-> <<kw(tx.if), sy(tx.lparen), idt(<<"x">>), sy(tx.rparen),
                   sy(tx.lbrace), sy(tx.rbrace), kw(tx.else), sy(tx.lbrace),
                   sy(tx.rbrace)>>, local |-> FALSE, else |-> TRUE,
      node |-> ConditionalNode_new(CondNode, EmptyBlockNode, EmptyBlockNode,
                                   1)]}

IsLocal(d) == d.local

IsStatement(d) == ~d.local

\* C20: in a block an item that starts with int, bool or void becomes a
\* local VarDecl and any other item a Statement; the Block that
\* parse_block returns holds the locals in their source order and the
\* statements in theirs, however the two kinds are interleaved, and the
\* two lists together have one entry per item. A Block is returned for
\* every sequence of items without an else-branch.
C20_BlockLists ==
    Done("parse_block") =>
        \A ds \in UNION {[1 .. k -> BlockItemNodes] : k \in 0 .. MaxItems} :
            \A r \in Rests :
                input = <<sy(tx.lbrace)>>
                        \o Flatten([i \in DOMAIN ds |-> ds[i].tokens])
                        \o <<sy(tx.rbrace)>> \o r
                => /\ (\A i \in DOMAIN ds : ~ds[i].else) => ps.st = "ok"
                   /\ ps.st = "ok"
                      => /\ ps.q = r
                         /\ ps.val =
                               BlockNode_new(NodesOf(SelectSeq(ds, IsLocal)),
                                             NodesOf(SelectSeq(ds, IsStatement)),
                                             1)
                         /\ Len(ps.val.variables) + Len(ps.val.statements)
                            = Len(ds)

\* { x = 7; int y; } has been parsed: a declaration after a statement
C20_Witness ==
    /\ Done("parse_block")
    /\ input = <<sy(tx.lbrace), idt(<<"x">>), sy(tx.assign), dec(<<"7">>),
                 sy(tx.semi), kw(tx.int), idt(<<"y">>), sy(tx.semi),
                 sy(tx.rbrace)>>
    /\ ps.st = "ok"
    /\ Len(ps.val.variables) = 1
    /\ Len(ps.val.statements) = 1


PrefixOps == {<<sy(tx.minus)>>, <<sy(tx.not)>>}

\* C21: the unary rule takes at most one prefix operator, whose operand is
\* a base expression: - x is UnaryOp(NEG, x) and ! x is UnaryOp(NOT, x); a
\* prefix operator directly followed by another one (- - x, ! - x) is
\* rejected with an error; with the inner operator in parentheses
\* (- ( - x )) the nesting is accepted.
C21_OnePrefixOperator ==
    Done("parse_expr") =>
        \A u1 \in PrefixOps :
            /\ input = u1 \o <<idt(<<"x">>)>> \o Semi
               => /\ ps.st = "ok"
                  /\ ps.q = Semi
                  /\ ps.val = Prefixed(u1, LocationNode_new(<<"x">>, NULL, 1))
            /\ \A u2 \in PrefixOps :
                  /\ input = u1 \o u2 \o <<idt(<<"x">>)>> \o Semi
                     => /\ ps.st = "error"
                        /\ ps.nerr = 1
                        /\ ps.err.kind = "InvalidBaseExpression"
                  /\ input = u1 \o <<sy(tx.lparen)>> \o u2
                             \o <<idt(<<"x">>), sy(tx.rparen)>> \o Semi
                     => /\ ps.st = "ok"
                        /\ ps.q = Semi
                        /\ ps.val =
                              Prefixed(u1, Prefixed(u2,
                                  LocationNode_new(<<"x">>, NULL, 1)))

\* ! - x ; has been rejected
C21_Witness ==
    /\ Done("parse_expr")
    /\ input = <<sy(tx.not), sy(tx.minus), idt(<<"x">>), sy(tx.semi)>>
    /\ ps.st = "error"


StatementKeys == {tx.break, tx.continue, tx.return, tx.while, tx.if}

ReturnValue == <<idt(<<"x">>), sy(tx.plus), dec(<<"7">>)>>

ReturnValueNode ==
    BinaryOpNode_new("ADDOP", LocationNode_new(<<"x">>, NULL, 1),
                     LiteralNode_new_int(7, 1), 1)

\* C23: parse_statement consumes return; before a ; the Return node has no
\* value and no expression is parsed, otherwise one expression is parsed
\* and is the value; then the ; is required and consumed, and without it
\* an error is raised.
C23_Return ==
    Done("parse_statement") =>
        /\ \A r \in Rests :
              /\ input = <<kw(tx.return), sy(tx.semi)>> \o r
                 => /\ ps.st = "ok"
                    /\ ps.q = r
                    /\ ps.val = ReturnNode_new(NULL, 1)
              /\ input = <<kw(tx.return)>> \o ReturnValue \o <<sy(tx.semi)>> \o r
                 => /\ ps.st = "ok"
                    /\ ps.q = r
                    /\ ps.val = ReturnNode_new(ReturnValueNode, 1)
        /\ \/ input = <<kw(tx.return)>>
           \/ input = <<kw(tx.return), idt(<<"x">>)>>
           \/ input = <<kw(tx.return)>> \o ReturnValue
           \/ input = <<kw(tx.return)>> \o ReturnValue \o <<sy(tx.rparen)>>
           \/ input = <<kw(tx.return)>> \o ReturnValue
                      \o <<sy(tx.rparen), sy(tx.semi)>>
           => /\ ps.st = "error"
              /\ ps.nerr = 1
              /\ ~ps.wild


\* the enumerated arguments with the node of each
ArgNodes ==
    {[tokens |-> <<idt(<<"x">>)>>, node |-> LocationNode_new(<<"x">>, NULL, 1)],
     [tokens |-> <<idt(<<"y">>), sy(tx.plus), dec(<<"1">>)>>,
      node |-> BinaryOpNode_new("ADDOP", LocationNode_new(<<"y">>, NULL, 1),
                                LiteralNode_new_int(1, 1), 1)]}

TokensOf(ds) == [i \in DOMAIN ds |-> ds[i].tokens]

CallOf(args) ==
    <<idt(<<"f">>), sy(tx.lparen)>> \o args \o <<sy(tx.rparen)>>

\* C24: parse_funccall on name ( ) returns a Call without arguments; on
\* name ( e1 , ... , en ) a Call whose arguments are e1 .. en in source
\* order; a comma before the ) and two arguments without a comma between
\* them raise an error.
C24_CallArguments ==
    Done("parse_funccall") =>
        \A ds \in UNION {[1 .. k -> ArgNodes] : k \in 0 .. MaxArgs} :
            \A r \in Rests :
                /\ input = CallOf(CommaJoin(TokensOf(ds))) \o r
                   => /\ ps.st = "ok"
                      /\ ps.q = r
                      /\ ps.val = FuncCallNode_new(<<"f">>, NodesOf(ds), 1)
                /\ (/\ Len(ds) >= 1
                    /\ input = CallOf(CommaJoin(TokensOf(ds))
                                      \o <<sy(tx.comma)>>) \o r)
                   => /\ ps.st = "error"
                      /\ ps.nerr = 1
                /\ (/\ Len(ds) >= 2
                    /\ \/ input = CallOf(Flatten(TokensOf(ds))) \o r
                       \/ input = CallOf(CommaJoin(TokensOf(SubSeq(ds, 1,
                                                               Len(ds) - 1)))
                                         \o ds[Len(ds)].tokens) \o r)
                   => /\ ps.st = "error"
                      /\ ps.nerr = 1

\* f ( x , y + 1 , x ) has been parsed
C24_Witness ==
    /\ Done("parse_funccall")
    /\ input = <<idt(<<"f">>), sy(tx.lparen), idt(<<"x">>), sy(tx.comma),
                 idt(<<"y">>), sy(tx.plus), dec(<<"1">>), sy(tx.comma),
                 idt(<<"x">>), sy(tx.rparen)>>
    /\ ps.st = "ok"
    /\ Len(ps.val.arguments) = 3


\* the enumerated parameters with the list entry of each
ParamNodes ==
    {[tokens |-> <<kw(tx.int), idt(<<"a">>)>>, node |-> Parameter(<<"a">>, INT)],
     [tokens |-> <<kw(tx.bool), idt(<<"b">>)>>,
      node |-> Parameter(<<"b">>, BOOL)]}

BodyNodes ==
    {[tokens |-> <<sy(tx.lbrace), sy(tx.rbrace)>>, node |-> EmptyBlockNode],
     [tokens |-> <<sy(tx.lbrace), kw(tx.return), sy(tx.semi), sy(tx.rbrace)>>,
      node |-> BlockNode_new(<<>>, <<ReturnNode_new(NULL, 1)>>, 1)]}

FuncDeclOf(ty, params, body) ==
    <<kw(tx.def), ty, idt(<<"m">>), sy(tx.lparen)>> \o params
    \o <<sy(tx.rparen)>> \o body

\* C25: parse_funcdecl on def Type Identifier ( params ) Block returns a
\* FuncDecl of that return type, name and body; its parameter list is empty
\* when ) follows ( directly and holds otherwise one (name, type) pair per
\* Type Identifier item, in source order, the items separated by single
\* commas; the same name may occur twice; a missing comma and a comma
\* before the ) raise an error.
C25_FuncDeclParameters ==
    Done("parse_funcdecl") =>
        \A ds \in UNION {[1 .. k -> ParamNodes] : k \in 0 .. MaxArgs} :
            \A ty \in TypeKeys : \A b \in BodyNodes : \A r \in Rests :
                /\ input = FuncDeclOf(ty, CommaJoin(TokensOf(ds)), b.tokens) \o r
                   => /\ ps.st = "ok"
                      /\ ps.q = r
                      /\ ps.val = FuncDeclNode_new(<<"m">>, TypeOfKey(ty),
                                                   NodesOf(ds), b.node, 1)
                /\ (/\ Len(ds) >= 1
                    /\ input = FuncDeclOf(ty, CommaJoin(TokensOf(ds))
                                              \o <<sy(tx.comma)>>, b.tokens) \o r)
                   => /\ ps.st = "error"
                      /\ ps.nerr = 1
                /\ (/\ Len(ds) >= 2
                    /\ \/ input = FuncDeclOf(ty, Flatten(TokensOf(ds)),
                                             b.tokens) \o r
                       \/ input = FuncDeclOf(ty,
                                      CommaJoin(TokensOf(SubSeq(ds, 1,
                                                                Len(ds) - 1)))
                                      \o ds[Len(ds)].tokens, b.tokens) \o r)
                   => /\ ps.st = "error"
                      /\ ps.nerr = 1

\* def void m ( int a , int a ) { } has been parsed: the name a twice
C25_Witness ==
    /\ Done("parse_funcdecl")
    /\ input = <<kw(tx.def), kw(tx.void), idt(<<"m">>), sy(tx.lparen),
                 kw(tx.int), idt(<<"a">>), sy(tx.comma), kw(tx.int),
                 idt(<<"a">>), sy(tx.rparen), sy(tx.lbrace), sy(tx.rbrace)>>
    /\ ps.st = "ok"
    /\ Len(ps.val.parameters) = 2


Consumed == IF input = NULL_QUEUE THEN 0 ELSE Len(input) - Len(ps.q)

\* C26: every pass of a loop of the parser (top-level declarations, block
\* items, parameters, arguments, the binary-operator loops) removes at
\* least one token or raises an error, so that the number of passes never
\* exceeds the number of tokens of the input: parse stops on every token
\* sequence, valid or not.
C26_LoopsConsume ==
    /\ ~ps.stall
    /\ ps.iter <= Len(input)
    /\ ps.st = "ok" => ps.iter <= Consumed

\* a parse has ended after three passes of its loops or more
C26_Witness ==
    /\ Done("parse")
    /\ ps.iter >= 3
    /\ ps.st = "ok"


\* C27: the parser never removes a token from an empty queue: whenever a
\* rule removes a token the queue holds one, also where parse_vardecl
\* removes the array-length token after [ and where parse_conditional and
\* parse_while remove their keyword.
C27_NoRemoveFromEmpty == ~ps.rmempty

============================================================================
